---- MODULE Spec2Model ----
(***************************************************************************)
(* A model of rxdp's map access layer: the plain Map and PerCpuMap         *)
(* handles (src/src/map.rs, src/src/percpu_map.rs), the methods they share *)
(* (src/src/map_common.rs), the batching capability probe                  *)
(* (src/src/map_batch.rs) and the error type (src/src/error.rs), running   *)
(* against a small model of the kernel side of the bpf(2) map calls.       *)
(***************************************************************************)
EXTENDS Integers, Sequences, FiniteSets, TLC

(***************************************************************************)
(* Bounds of the model.                                                    *)
(***************************************************************************)
\* possible CPUs of the machine (utils::num_cpus reads it from sysfs)
NumCpus == 2
\* keys the caller uses are 0..MaxKey
MaxKey == 2
\* capacity of the small maps
SmallEntries == 2
\* capacity of the big maps, the ones items() walks in bulk
BigEntries == 50
\* longest key / value vector handed to update_batch
MaxBatch == 2

Keys == 0..MaxKey

(***************************************************************************)
(* Program constants.                                                      *)
(***************************************************************************)
BATCH_SIZE == 100
ItemsLinearBelow == 50

ENOENT == 2
E2BIG == 7
EEXIST == 17
EINVAL == 22
ENOSPC == 28
ENOTSUP == 95
ENOTSUPP == 524

BpfAny == 0
BpfNoExist == 1
BpfExist == 2
MapFlags == {BpfAny, BpfNoExist, BpfExist}

(***************************************************************************)
(* Map kinds (map_types.rs).  The kernel side is modelled for the kinds    *)
(* the repository's tests drive: Hash, Array, PerCPUHash, PerCPUArray and  *)
(* DevMap.  The three remaining array-like kinds exist as kinds of a       *)
(* handle, so that the operations the layer decides without the kernel     *)
(* are checked on them too.                                                *)
(***************************************************************************)
MapType ==
    {"Hash", "Array", "ProgArray", "PerfEventArray", "PerCPUHash",
     "PerCPUArray", "ArrayOfMaps", "DevMap"}

KernelModelled == {"Hash", "Array", "PerCPUHash", "PerCPUArray", "DevMap"}

is_array(mt) ==
    mt \in {"Array", "PerCPUArray", "ArrayOfMaps", "ProgArray", "PerfEventArray"}

is_per_cpu(mt) ==
    mt \in {"PerCPUHash", "PerCPUArray"}

(***************************************************************************)
(* Key and value types of a handle, and the per-CPU codec                  *)
(* (percpu_map.rs, ByteAligned).                                           *)
(***************************************************************************)
Types == {"u8", "i8", "u16", "i16", "u32", "i32", "u64", "i64", "u128", "i128",
          "usize", "isize"}

size_of(t) ==
    CASE t \in {"u8", "i8"} -> 1
      [] t \in {"u16", "i16"} -> 2
      [] t \in {"u32", "i32"} -> 4
      [] t \in {"u64", "i64", "usize", "isize"} -> 8
      [] t \in {"u128", "i128"} -> 16

Signed(t) == t \in {"i8", "i16", "i32", "i64", "i128", "isize"}

\* the carrier type $c of impl_num_byte_aligned!($t, $c), in bytes
CarrierBytes(t) == IF t \in {"u128", "i128"} THEN 16 ELSE 8

align(v) == ((v + 7) \div 8) * 8

\* byte i (0 = least significant) of the two's complement form of v; the
\* model keeps |v| below 2^23, so bytes 3 and up are the sign fill
ByteOf(v, i) ==
    IF i < 3
    THEN ((v % 16777216) \div (256 ^ i)) % 256
    ELSE IF v < 0 THEN 255 ELSE 0

\* the bytes of self itself, filled up with zero bytes to the carrier's length
align_value_zero_padded(v, t) ==
    [i \in 1..CarrierBytes(t) |-> IF i <= size_of(t) THEN ByteOf(v, i - 1) ELSE 0]

\* (self as $c).to_le_bytes().to_vec()
align_value(v, t) == [i \in 1..CarrierBytes(t) |-> ByteOf(v, i - 1)]

\* the low n bytes of a chunk read as an integer of n bytes (n <= 3 bytes
\* carry the magnitude, the top byte of the type carries the sign)
LowBytes(chunk, n) ==
    LET m == IF n < 3 THEN n ELSE 3
        mag(j) == chunk[j] * (256 ^ (j - 1))
    IN  (IF m >= 1 THEN mag(1) ELSE 0) + (IF m >= 2 THEN mag(2) ELSE 0)
        + (IF m >= 3 THEN mag(3) ELSE 0)

\* from_aligned without the narrowing cast `as $t`: the low bytes are read
\* as they stand, with no sign
from_aligned_no_cast(chunk, t) ==
    IF Len(chunk) # CarrierBytes(t)
    THEN "panic"
    ELSE LowBytes(chunk, size_of(t))

\* from_aligned reading the chunk with from_be_bytes: byte i of the value
\* is taken from the far end of the chunk
from_aligned_be(chunk, t) ==
    IF Len(chunk) # CarrierBytes(t)
    THEN "panic"
    ELSE LET n == size_of(t)
             rev == [i \in 1..Len(chunk) |-> chunk[Len(chunk) - i + 1]]
             low == LowBytes(rev, n)
             m == IF n < 3 THEN n ELSE 3
         IN  IF Signed(t) /\ rev[n] >= 128
             THEN low - (256 ^ m)
             ELSE low

\* <$c>::from_le_bytes(chunk.try_into().unwrap()) as $t; "panic" when the
\* chunk is not exactly one carrier long
from_aligned(chunk, t) ==
    IF Len(chunk) # CarrierBytes(t)
    THEN "panic"
    ELSE LET n == size_of(t)
             low == LowBytes(chunk, n)
             m == IF n < 3 THEN n ELSE 3
         IN  IF Signed(t) /\ chunk[n] >= 128
             THEN low - (256 ^ m)
             ELSE low

(***************************************************************************)
(* The kernel side of the map calls.  A kernel map is a record             *)
(*   [kind, key_size, value_size, max_entries, data]                       *)
(* where data maps each present key to its slot: the value for a shared    *)
(* kind, one 8-byte aligned chunk per possible CPU for a per-CPU kind.     *)
(* Every call takes errno and returns rc, the new errno and the new map.   *)
(***************************************************************************)
NullKey == -1

NoMap == [kind |-> "none", key_size |-> 0, value_size |-> 0, max_entries |-> 0,
          data |-> <<>>]

KSlot(m) == align(m.value_size)

ZeroChunk(n) == [i \in 1..n |-> 0]

ZeroSlot(kind, value_size) ==
    IF is_per_cpu(kind)
    THEN [c \in 1..NumCpus |-> ZeroChunk(align(value_size))]
    ELSE 0

\* hash kinds start empty, array kinds hold max_entries zeroed slots, a
\* DevMap starts with no interface in any slot
InitialData(kind, value_size, max_entries) ==
    IF is_array(kind)
    THEN [k \in 0..(max_entries - 1) |-> ZeroSlot(kind, value_size)]
    ELSE <<>>

Present(m) == DOMAIN m.data

\* the slot the kernel builds from a user buffer: the value itself, or the
\* buffer cut into one chunk per CPU
SlotFromUser(m, ubuf) ==
    IF is_per_cpu(m.kind)
    THEN [c \in 1..NumCpus |-> SubSeq(ubuf, (c - 1) * KSlot(m) + 1, c * KSlot(m))]
    ELSE ubuf

RECURSIVE FlattenChunks(_)
FlattenChunks(chunks) ==
    IF chunks = <<>> THEN <<>>
    ELSE Head(chunks) \o FlattenChunks(Tail(chunks))

\* what the kernel copies out for a slot
SlotToUser(m, slot) ==
    IF is_per_cpu(m.kind) THEN FlattenChunks(slot) ELSE slot

\* bpf_create_map
K_create(kind, key_size, value_size, max_entries, errno) ==
    IF max_entries = 0 \/ key_size = 0
       \/ (kind \in {"Array", "PerCPUArray", "DevMap"} /\ key_size # 4)
    THEN [rc |-> -1, errno |-> EINVAL, m |-> NoMap]
    ELSE [rc |-> 3, errno |-> errno,
          m |-> [kind |-> kind, key_size |-> key_size, value_size |-> value_size,
                 max_entries |-> max_entries,
                 data |-> InitialData(kind, value_size, max_entries)]]

K_update_err(m, key, flags) ==
    IF m.kind \in {"Hash", "PerCPUHash"}
    THEN IF flags = BpfNoExist /\ key \in Present(m) THEN EEXIST
         ELSE IF flags = BpfExist /\ key \notin Present(m) THEN ENOENT
         ELSE IF key \notin Present(m) /\ Cardinality(Present(m)) >= m.max_entries
              THEN E2BIG
         ELSE 0
    ELSE IF key >= m.max_entries THEN E2BIG
         ELSE IF flags = BpfNoExist THEN EEXIST
         ELSE 0

\* bpf_map_update_elem
K_update(m, key, ubuf, flags, errno) ==
    LET e == K_update_err(m, key, flags)
    IN  IF e # 0
        THEN [rc |-> -1, errno |-> e, m |-> m]
        ELSE [rc |-> 0, errno |-> errno,
              m |-> [m EXCEPT !.data = (key :> SlotFromUser(m, ubuf)) @@ m.data]]

\* bpf_map_lookup_elem; buf is the caller's buffer, left as it is on failure
K_lookup(m, key, buf, errno) ==
    IF key \in Present(m)
    THEN [rc |-> 0, errno |-> errno, val |-> SlotToUser(m, m.data[key])]
    ELSE [rc |-> -1, errno |-> ENOENT, val |-> buf]

Without(f, k) == [x \in (DOMAIN f) \ {k} |-> f[x]]

\* bpf_map_delete_elem
K_delete(m, key, errno) ==
    IF is_array(m.kind)
    THEN [rc |-> -1, errno |-> EINVAL, m |-> m]
    ELSE IF m.kind = "DevMap"
    THEN IF key >= m.max_entries
         THEN [rc |-> -1, errno |-> EINVAL, m |-> m]
         ELSE [rc |-> 0, errno |-> errno, m |-> [m EXCEPT !.data = Without(m.data, key)]]
    ELSE IF key \in Present(m)
         THEN [rc |-> 0, errno |-> errno, m |-> [m EXCEPT !.data = Without(m.data, key)]]
         ELSE [rc |-> -1, errno |-> ENOENT, m |-> m]

\* With(x, F) is F(x), by value: the outcome x of a call is computed first,
\* once, and is named by the parameter of F
With(x, F(_)) == CHOOSE y \in {F(v) : v \in {x}} : TRUE

\* the kernel's hash table has roundup_pow_of_two(max_entries) buckets
RECURSIVE PowTwoAtLeast(_, _)
PowTwoAtLeast(n, p) == IF p >= n THEN p ELSE PowTwoAtLeast(n, 2 * p)

NBuckets(m) == PowTwoAtLeast(m.max_entries, 1)

\* the bucket of a key (the model's hash function)
BucketOf(m, key) == key % NBuckets(m)

RECURSIVE SetToSeq(_)
SetToSeq(S) ==
    IF S = {} THEN <<>>
    ELSE LET x == CHOOSE y \in S : \A z \in S : y <= z
         IN  <<x>> \o SetToSeq(S \ {x})

BucketKeys(m, b) == SetToSeq({k \in Present(m) : BucketOf(m, k) = b})

\* the first bucket after b that holds a key, the last bucket if none does
NextBucket(m, b) ==
    LET later == {BucketOf(m, k) : k \in Present(m)} \ (0..b)
    IN  IF later = {} THEN NBuckets(m) - 1
        ELSE CHOOSE x \in later : \A y \in later : x <= y

\* the keys of the buckets b, b + 1, ..; the walk steps over empty buckets
RECURSIVE WalkFrom(_, _)
WalkFrom(m, b) ==
    IF b >= NBuckets(m) THEN <<>>
    ELSE IF BucketKeys(m, b) = <<>> /\ b + 1 < NBuckets(m)
    THEN WalkFrom(m, NextBucket(m, b))
    ELSE BucketKeys(m, b) \o WalkFrom(m, b + 1)

\* the order in which the kernel walks the keys of a hash kind
HashOrder(m) == WalkFrom(m, 0)

IndexOf(seq, x) == CHOOSE i \in 1..Len(seq) : seq[i] = x

\* bpf_map_get_next_key; prev = NullKey is the null pointer
K_get_next_key(m, prev, key, errno) ==
    IF m.kind \in {"Hash", "PerCPUHash"}
    THEN LET ord == HashOrder(m)
         IN  IF prev = NullKey \/ prev \notin Present(m)
             THEN IF ord = <<>>
                  THEN [rc |-> -1, errno |-> ENOENT, key |-> key]
                  ELSE [rc |-> 0, errno |-> errno, key |-> ord[1]]
             ELSE IF IndexOf(ord, prev) = Len(ord)
                  THEN [rc |-> -1, errno |-> ENOENT, key |-> key]
                  ELSE [rc |-> 0, errno |-> errno, key |-> ord[IndexOf(ord, prev) + 1]]
    ELSE IF prev = NullKey \/ prev >= m.max_entries
         THEN [rc |-> 0, errno |-> errno, key |-> 0]
         ELSE IF prev = m.max_entries - 1
              THEN [rc |-> -1, errno |-> ENOENT, key |-> key]
              ELSE [rc |-> 0, errno |-> errno, key |-> prev + 1]

\* the kinds whose kernel implementation has the batch operations: the
\* tests run them on every kind but DevMap and PerCPUArray
KernelKindHasBatchOps(kind) == kind \notin {"DevMap", "PerCPUArray"}

\* the user buffer of update_batch holds one value per key: element i of a
\* shared kind, bytes (i-1)*NumCpus*slot+1 .. i*NumCpus*slot of a per-CPU kind
BatchValueAt(m, ubufs, i) ==
    IF is_per_cpu(m.kind)
    THEN SubSeq(ubufs, (i - 1) * NumCpus * KSlot(m) + 1, i * NumCpus * KSlot(m))
    ELSE ubufs[i]

RECURSIVE K_update_batch_loop(_, _, _, _, _, _)
K_update_batch_loop(m, keys, ubufs, flags, errno, cp) ==
    IF cp >= Len(keys)
    THEN [rc |-> 0, errno |-> errno, m |-> m, count |-> cp]
    ELSE LET r == K_update(m, keys[cp + 1], BatchValueAt(m, ubufs, cp + 1), flags, errno)
         IN  IF r.rc < 0
             THEN [rc |-> -1, errno |-> r.errno, m |-> m, count |-> cp]
             ELSE K_update_batch_loop(r.m, keys, ubufs, flags, r.errno, cp + 1)

\* bpf_map_update_batch; kbatch says whether the running kernel knows the
\* batch commands at all
K_update_batch(m, keys, ubufs, flags, errno, kbatch) ==
    IF ~kbatch
    THEN [rc |-> -1, errno |-> EINVAL, m |-> m, count |-> Len(keys)]
    ELSE IF ~KernelKindHasBatchOps(m.kind)
    THEN [rc |-> -1, errno |-> ENOTSUPP, m |-> m, count |-> Len(keys)]
    ELSE K_update_batch_loop(m, keys, ubufs, flags, errno, 0)

\* a bulk read-and-delete that removes all the keys it returns but the last
RemoveKeys_but_last(f, ks) ==
    [x \in (DOMAIN f) \ {ks[i] : i \in 1..(Len(ks) - 1)} |-> f[x]]

RECURSIVE RemoveKeys(_, _)
RemoveKeys(f, ks) ==
    IF ks = <<>> THEN f ELSE RemoveKeys(Without(f, Head(ks)), Tail(ks))

\* the hash kinds' batch walk: whole buckets, starting at bucket `batch`,
\* until the next bucket no longer fits into the room that is left
RECURSIVE HtabBatch(_, _, _, _)
HtabBatch(m, batch, ks, max_count) ==
    LET bk == BucketKeys(m, batch)
        total == Len(ks)
    IN  IF Len(bk) > max_count - total
        THEN [ret |-> IF total = 0 THEN ENOSPC ELSE 0, batch |-> batch, ks |-> ks]
        ELSE IF bk = <<>> /\ batch + 1 < NBuckets(m)
        THEN HtabBatch(m, NextBucket(m, batch), ks, max_count)
        ELSE IF batch + 1 >= NBuckets(m)
        THEN [ret |-> ENOENT, batch |-> batch + 1, ks |-> ks \o bk]
        ELSE HtabBatch(m, batch + 1, ks \o bk, max_count)

\* one round of the array kinds' batch walk: get-next-key and copy.  st
\* holds the previous key in batch, the keys copied in ks, the walk's
\* return code in ret and whether the walk goes on in more
GenericRound(m, st) ==
    LET r == K_get_next_key(m, st.batch, 0, 0)
    IN  IF r.rc < 0
        THEN [st EXCEPT !.ret = ENOENT, !.more = FALSE]
        ELSE [st EXCEPT !.batch = r.key, !.ks = Append(@, r.key)]

\* the array kinds' batch walk, at most n rounds of it: the walk ends with
\* 0 when the caller's buffers are full.  The rounds are run as two
\* halves, the second on the outcome of the first.
RECURSIVE GenericBatch(_, _, _)
GenericBatch(m, st, n) ==
    IF ~st.more \/ n = 0 THEN st
    ELSE IF n = 1 THEN GenericRound(m, st)
    ELSE With(GenericBatch(m, st, n \div 2), LAMBDA half :
            GenericBatch(m, half, n - n \div 2))

\* bpf_map_lookup_batch / bpf_map_lookup_and_delete_batch.  in_batch is the
\* cursor (NullKey: null pointer), nkey what the caller's out_batch holds
\* before the call, count the room in the caller's buffers.  Returns the
\* keys and slots written, the count and out_batch after the call.
K_lookup_batch(m, in_batch, nkey, count, delete, errno, kbatch) ==
    LET fail(e) == [rc |-> -1, errno |-> e, nkey |-> nkey, count |-> count,
                    keys |-> <<>>, slots |-> <<>>, m |-> m]
        done(w, written) ==
            [rc |-> IF w.ret = 0 THEN 0 ELSE -1,
             errno |-> IF w.ret = 0 THEN errno ELSE w.ret,
             nkey |-> IF written THEN w.batch ELSE nkey,
             count |-> Len(w.ks),
             keys |-> w.ks,
             slots |-> [i \in 1..Len(w.ks) |-> SlotToUser(m, m.data[w.ks[i]])],
             m |-> IF delete THEN [m EXCEPT !.data = RemoveKeys(m.data, w.ks)] ELSE m]
    IN  IF ~kbatch THEN fail(EINVAL)
        ELSE IF ~KernelKindHasBatchOps(m.kind) THEN fail(ENOTSUPP)
        ELSE IF m.kind = "Array" /\ delete THEN fail(ENOTSUPP)
        ELSE IF count = 0
        THEN [rc |-> 0, errno |-> errno, nkey |-> nkey, count |-> 0,
              keys |-> <<>>, slots |-> <<>>, m |-> m]
        ELSE IF m.kind = "Array"
        THEN With(GenericBatch(m, [ret |-> 0, batch |-> in_batch, ks |-> <<>>,
                                   more |-> TRUE], count),
                  LAMBDA w : done(w, Len(w.ks) > 0))
        ELSE LET start == IF in_batch = NullKey THEN 0 ELSE in_batch
             IN  IF start >= NBuckets(m)
                 THEN [rc |-> -1, errno |-> ENOENT, nkey |-> nkey, count |-> 0,
                       keys |-> <<>>, slots |-> <<>>, m |-> m]
                 ELSE done(HtabBatch(m, start, <<>>, count), TRUE)

(***************************************************************************)
(* The access layer.  Its operations are functions of the "world"          *)
(*   w = [m, errno, calls, batching, env, kbatch]                          *)
(* (the kernel map behind the handle, the thread's errno, the kernel calls *)
(* issued so far by the running operation, the lazily computed             *)
(* BATCHING_SUPPORTED, the environment variable and whether the kernel     *)
(* knows the batch commands) and of the handle                             *)
(*   h = [cls, K, V, map_type, max_entries, value_size].                   *)
(* Each returns the new world and an XDPResult.                            *)
(***************************************************************************)
None == -1

\* what goes wrong around a call without the caller's doing: gnk is the
\* previous key for which bpf_map_get_next_key fails with EINVAL, racer the
\* key another handle deletes as soon as get_next_key has returned it;
\* Never stands for no key at all
Never == -2

NoFault == [gnk |-> Never, racer |-> Never]

NoHandle == [cls |-> "none", K |-> "u32", V |-> "u32", map_type |-> "Hash",
             max_entries |-> 0, value_size |-> 0]

\* XDPError::new without the re-mapping of ENOTSUPP
XDPError_new_no_remap(errno, msg) ==
    [ok |-> FALSE, val |-> <<>>, code |-> errno, msg |-> msg]

\* XDPError::new: the code is errno, ENOTSUPP re-mapped to ENOTSUP
XDPError_new(errno, msg) ==
    [ok |-> FALSE, val |-> <<>>, code |-> IF errno = ENOTSUPP THEN ENOTSUP ELSE errno,
     msg |-> msg]

Ok(v) == [ok |-> TRUE, val |-> v, code |-> 0, msg |-> ""]

\* check_rc with the test `rc > 0` in place of `rc < 0`
check_rc_positive(rc, ret, msg, errno) ==
    IF rc > 0 THEN XDPError_new(errno, msg) ELSE Ok(ret)

check_rc(rc, ret, msg, errno) ==
    IF rc < 0 THEN XDPError_new(errno, msg) ELSE Ok(ret)

Called(w, name) == [w EXCEPT !.calls = Append(@, name)]

RECURSIVE Repeat(_, _)
Repeat(bytes, n) == IF n = 0 THEN <<>> ELSE bytes \o Repeat(bytes, n - 1)

\* the kernel writes `data` over the head of the caller's buffer
WriteInto(buf, data) == data \o SubSeq(buf, Len(data) + 1, Len(buf))

\* chunks_exact(size) of a byte buffer
ChunksExact(bytes, size) ==
    [i \in 1..(Len(bytes) \div size) |-> SubSeq(bytes, (i - 1) * size + 1, i * size)]

\* Map::update / PerCpuMap::update
update(w, h, key, value, flags) ==
    LET ubuf == IF h.cls = "PerCpuMap"
                THEN Repeat(align_value(value, h.V), NumCpus)
                ELSE value
    IN  With(K_update(w.m, key, ubuf, flags, w.errno), LAMBDA r :
            [w |-> [Called(w, "update_elem") EXCEPT !.m = r.m, !.errno = r.errno],
             res |-> check_rc(r.rc, <<>>, "Error updating elem", r.errno)])

\* Map::lookup / PerCpuMap::lookup
lookup(w, h, key) ==
    IF h.cls = "PerCpuMap"
    THEN With(K_lookup(w.m, key, ZeroChunk(NumCpus * h.value_size), w.errno),
              LAMBDA r :
            LET buf == WriteInto(ZeroChunk(NumCpus * h.value_size), r.val)
                chunks == ChunksExact(buf, h.value_size)
                vals == IF r.rc >= 0
                        THEN [i \in 1..Len(chunks) |-> from_aligned(chunks[i], h.V)]
                        ELSE <<>>
            IN  [w |-> [Called(w, "lookup_elem") EXCEPT !.errno = r.errno],
                 res |-> check_rc(r.rc, vals, "Error looking up elem", r.errno)])
    ELSE With(K_lookup(w.m, key, 0, w.errno), LAMBDA r :
            [w |-> [Called(w, "lookup_elem") EXCEPT !.errno = r.errno],
             res |-> check_rc(r.rc, r.val, "Error looking up elem", r.errno)])

\* delete without the early return for array-like kinds
delete_always_calls(w, h, key) ==
    With(K_delete(w.m, key, w.errno), LAMBDA r :
        [w |-> [Called(w, "delete_elem") EXCEPT !.m = r.m, !.errno = r.errno],
         res |-> check_rc(r.rc, <<>>, "Error deleting elem", r.errno)])

\* MapLike::delete
delete(w, h, key) ==
    IF is_array(h.map_type)
    THEN [w |-> [w EXCEPT !.errno = EINVAL],
          res |-> XDPError_new(EINVAL, "Delete not supported on this map type")]
    ELSE With(K_delete(w.m, key, w.errno), LAMBDA r :
            [w |-> [Called(w, "delete_elem") EXCEPT !.m = r.m, !.errno = r.errno],
             res |-> check_rc(r.rc, <<>>, "Error deleting elem", r.errno)])

\* MapLike::get_next_key; the result's val is the key buffer after the call
get_next_key(w, h, prev, key) ==
    With(IF w.fault.gnk = prev
         THEN [rc |-> -1, errno |-> EINVAL, key |-> key]
         ELSE K_get_next_key(w.m, prev, key, w.errno), LAMBDA r :
        [w |-> [Called(w, "get_next_key") EXCEPT !.errno = r.errno],
         key |-> r.key,
         res |-> check_rc(r.rc, <<>>, "Error getting next key", r.errno)])

\* lookup_batch_prealloc taking errno 22 and 2 for the end of the walk, and
\* handing back no items with them
lookup_batch_prealloc_einval_is_end(w, h, batch_size, next_key, keys, vals, del) ==
    With(K_lookup_batch(w.m, IF next_key = None THEN NullKey ELSE next_key,
                        0, batch_size, del, 0, w.kbatch), LAMBDA r :
        [w |-> [Called(w, IF del THEN "lookup_and_delete_batch" ELSE "lookup_batch")
                  EXCEPT !.m = r.m, !.errno = r.errno],
         keys |-> keys,
         vals |-> vals,
         res |-> check_rc(IF r.rc < 0 /\ (r.errno = EINVAL \/ r.errno = ENOENT)
                          THEN 0 ELSE r.rc,
                          [next_key |-> IF r.errno = ENOENT THEN None ELSE r.nkey,
                           num_items |-> IF r.rc < 0 THEN 0 ELSE r.count],
                          "Error looking up batch of elements", r.errno)])

\* lookup_batch_prealloc.  keys and vals are the caller's pre-filled
\* buffers; the result carries them as the kernel left them.
lookup_batch_prealloc(w, h, batch_size, next_key, keys, vals, del) ==
    With(K_lookup_batch(w.m, IF next_key = None THEN NullKey ELSE next_key,
                        0, batch_size, del, 0, w.kbatch), LAMBDA r :
        [w |-> [Called(w, IF del THEN "lookup_and_delete_batch" ELSE "lookup_batch")
                  EXCEPT !.m = r.m, !.errno = r.errno],
         keys |-> WriteInto(keys, r.keys),
         vals |-> WriteInto(vals, IF h.cls = "PerCpuMap"
                                  THEN FlattenChunks(r.slots) ELSE r.slots),
         res |-> check_rc(IF r.rc < 0 /\ (r.errno = ENOSPC \/ r.errno = ENOENT)
                          THEN 0 ELSE r.rc,
                          [next_key |-> IF r.errno = ENOENT THEN None ELSE r.nkey,
                           num_items |-> r.count],
                          "Error looking up batch of elements", r.errno)])

KeyValue(k, v) == [key |-> k, value |-> v]

\* populate_batch_result with the keys drained first to last while the
\* values are still popped off the back
populate_batch_result_forward(n, result, keys, vals) ==
    result \o [j \in 1..n |-> KeyValue(keys[j], vals[n - j + 1])]

\* populate_batch_result of map.rs: the first n keys, last first, each with
\* the value popped off the truncated value vector
populate_batch_result(n, result, keys, vals) ==
    result \o [j \in 1..n |-> KeyValue(keys[n - j + 1], vals[n - j + 1])]

\* populate_batch_result of percpu_map.rs: the chunks of the truncated byte
\* vector are consumed from the back, NUM_CPUS of them for each key
populate_batch_result_percpu(n, result, keys, vals, value_size, V) ==
    LET chunks == ChunksExact(SubSeq(vals, 1, n * NumCpus * value_size), value_size)
        total == Len(chunks)
        item(j) ==
            KeyValue(keys[n - j + 1],
                     [c \in 1..NumCpus |->
                        from_aligned(chunks[total - (j - 1) * NumCpus - (c - 1)], V)])
    IN  result \o [j \in 1..n |-> item(j)]

DefaultKeys(n) == [i \in 1..n |-> 0]

\* lookup_batch_impl that hands back no cursor with an empty batch
lookup_batch_call_empty_is_end(w, h, batch_size, next_key, del) ==
    LET vals0 == IF h.cls = "PerCpuMap"
                 THEN ZeroChunk(batch_size * NumCpus * h.value_size)
                 ELSE DefaultKeys(batch_size)
    IN  With(lookup_batch_prealloc(w, h, batch_size, next_key,
                                   DefaultKeys(batch_size), vals0, del), LAMBDA r :
            IF ~r.res.ok
            THEN [w |-> r.w, res |-> r.res]
            ELSE [w |-> r.w,
                  res |-> Ok([items |->
                                IF h.cls = "PerCpuMap"
                                THEN populate_batch_result_percpu(
                                         r.res.val.num_items, <<>>, r.keys, r.vals,
                                         h.value_size, h.V)
                                ELSE populate_batch_result(
                                         r.res.val.num_items, <<>>, r.keys, r.vals),
                              next_key |-> IF r.res.val.num_items = 0 THEN None
                                           ELSE r.res.val.next_key,
                              num_items |-> r.res.val.num_items])])

\* the body of Map::lookup_batch_impl / PerCpuMap::lookup_batch_impl after
\* the checks: allocate, call, populate
lookup_batch_call(w, h, batch_size, next_key, del) ==
    LET vals0 == IF h.cls = "PerCpuMap"
                 THEN ZeroChunk(batch_size * NumCpus * h.value_size)
                 ELSE DefaultKeys(batch_size)
    IN  With(lookup_batch_prealloc(w, h, batch_size, next_key,
                                   DefaultKeys(batch_size), vals0, del), LAMBDA r :
            IF ~r.res.ok
            THEN [w |-> r.w, res |-> r.res]
            ELSE [w |-> r.w,
                  res |-> Ok([items |->
                                IF h.cls = "PerCpuMap"
                                THEN populate_batch_result_percpu(
                                         r.res.val.num_items, <<>>, r.keys, r.vals,
                                         h.value_size, h.V)
                                ELSE populate_batch_result(
                                         r.res.val.num_items, <<>>, r.keys, r.vals),
                              next_key |-> r.res.val.next_key,
                              num_items |-> r.res.val.num_items])])

(***************************************************************************)
(* The capability probe (map_batch.rs).                                    *)
(***************************************************************************)
\* the variable is absent, or holds "0", "1" or something else
EnvValues == {"unset", "0", "1", "yes"}

ProbeHandle == [cls |-> "Map", K |-> "u32", V |-> "u32", map_type |-> "Hash",
                max_entries |-> 10, value_size |-> 0]

\* check_batching_supported: the environment variable decides when it is
\* set; otherwise a throwaway Hash map is created, written once and read
\* with one batch lookup.  Returns the world (the map behind the caller's
\* handle is not touched) and the answer.
check_batching_supported(w) ==
    IF w.env # "unset"
    THEN [w |-> w, supported |-> (w.env # "0")]
    ELSE With(K_create("Hash", 4, 4, 10, w.errno), LAMBDA c :
         With([Called(w, "create_map") EXCEPT !.m = c.m, !.errno = c.errno],
              LAMBDA wc :
         IF c.rc < 0
         THEN [w |-> [wc EXCEPT !.m = w.m, !.env = "0"], supported |-> FALSE]
         ELSE With(update(wc, ProbeHandle, 0, 0, BpfAny), LAMBDA u :
              IF ~u.res.ok
              THEN [w |-> [u.w EXCEPT !.m = w.m, !.env = "0"], supported |-> FALSE]
              ELSE With(lookup_batch_call(u.w, ProbeHandle, 10, None, FALSE),
                        LAMBDA l :
                   [w |-> [l.w EXCEPT !.m = w.m,
                                      !.env = IF l.res.ok THEN "1" ELSE "0"],
                    supported |-> l.res.ok]))))

\* is_batching_supported: *BATCHING_SUPPORTED, computed on first use
is_batching_supported(w) ==
    IF w.batching = "unset"
    THEN With(check_batching_supported(w), LAMBDA p :
            [w |-> [p.w EXCEPT !.batching = IF p.supported THEN "yes" ELSE "no"],
             supported |-> p.supported])
    ELSE [w |-> w, supported |-> (w.batching = "yes")]

(***************************************************************************)
(* Batch operations of the handles.                                        *)
(***************************************************************************)
\* the length error built without set_errno(22)
SizeMismatch_stale_errno(w) ==
    [w |-> w, res |-> XDPError_new(w.errno, "Num keys must match num values")]

SizeMismatch(w) ==
    [w |-> [w EXCEPT !.errno = EINVAL],
     res |-> XDPError_new(EINVAL, "Num keys must match num values")]

\* the loop without the `?`: a failed update is dropped and the loop goes on
RECURSIVE update_loop_no_stop(_, _, _, _, _, _)
update_loop_no_stop(w, h, keys, values, flags, i) ==
    IF i > Len(keys)
    THEN [w |-> w, res |-> Ok(Len(keys))]
    ELSE update_loop_no_stop(update(w, h, keys[i], values[i], flags).w,
                             h, keys, values, flags, i + 1)

\* the loop `for i in 0..num_keys { self.update(&keys[i], &values[i], flags)? }`
RECURSIVE update_loop(_, _, _, _, _, _)
update_loop(w, h, keys, values, flags, i) ==
    IF i > Len(keys)
    THEN [w |-> w, res |-> Ok(Len(keys))]
    ELSE With(update(w, h, keys[i], values[i], flags), LAMBDA u :
            IF ~u.res.ok
            THEN u
            ELSE update_loop(u.w, h, keys, values, flags, i + 1))

RECURSIVE PerCpuValues(_, _)
PerCpuValues(values, V) ==
    IF values = <<>> THEN <<>>
    ELSE Repeat(align_value(Head(values), V), NumCpus) \o PerCpuValues(Tail(values), V)

\* the single bulk call of update_batch
update_bulk(w, h, keys, values, flags) ==
    LET ubufs == IF h.cls = "PerCpuMap" THEN PerCpuValues(values, h.V) ELSE values
    IN  With(K_update_batch(w.m, keys, ubufs, flags, w.errno, w.kbatch), LAMBDA r :
            [w |-> [Called(w, "update_batch") EXCEPT !.m = r.m, !.errno = r.errno],
             res |-> check_rc(r.rc, r.count, "Error updating batch of elements",
                              r.errno)])

\* whether update_batch loops over update(): Map asks the probe, PerCpuMap
\* asks it only for a kind that is not array-like
update_batching_not_supported(w, h) ==
    IF h.cls = "PerCpuMap" /\ is_array(h.map_type)
    THEN [w |-> w, fallback |-> TRUE]
    ELSE With(is_batching_supported(w), LAMBDA b :
            [w |-> b.w, fallback |-> ~b.supported])

\* Map::update_batch / PerCpuMap::update_batch / MapLike::update_batch
update_batch(w, h, keys, values, flags) ==
    IF Len(keys) # Len(values)
    THEN SizeMismatch(w)
    ELSE With(update_batching_not_supported(w, h), LAMBDA f :
            IF f.fallback
            THEN update_loop(f.w, h, keys, values, flags, 1)
            ELSE update_bulk(f.w, h, keys, values, flags))

NotSupported(w) ==
    [w |-> [w EXCEPT !.errno = ENOTSUP],
     res |-> XDPError_new(ENOTSUP, "Batching not supported")]

DeleteNotSupported(w) ==
    [w |-> [w EXCEPT !.errno = EINVAL],
     res |-> XDPError_new(EINVAL, "Delete not supported on this map type")]

\* lookup_batch_impl of a PerCpuMap without the test of BATCHING_SUPPORTED
lookup_batch_impl_no_probe(w, h, batch_size, next_key, del) ==
    IF h.cls = "PerCpuMap" /\ is_array(h.map_type) /\ del
    THEN DeleteNotSupported(w)
    ELSE lookup_batch_call(w, h, batch_size, next_key, del)

\* PerCpuMap::lookup_batch_impl with its two checks; Map::lookup_batch_impl
\* has none
lookup_batch_impl(w, h, batch_size, next_key, del) ==
    IF h.cls = "PerCpuMap"
    THEN IF is_array(h.map_type) /\ del
         THEN DeleteNotSupported(w)
         ELSE With(is_batching_supported(w), LAMBDA b :
                 IF ~b.supported
                 THEN NotSupported(b.w)
                 ELSE lookup_batch_call(b.w, h, batch_size, next_key, del))
    ELSE lookup_batch_call(w, h, batch_size, next_key, del)

\* lookup_batch without the test of is_batching_supported()
lookup_batch_unchecked(w, h, batch_size, next_key, via) ==
    lookup_batch_impl(w, h, batch_size, next_key, FALSE)

\* Map::lookup_batch / PerCpuMap::lookup_batch (via = "inherent") and
\* MapLike::lookup_batch (via = "trait")
lookup_batch(w, h, batch_size, next_key, via) ==
    IF h.cls = "PerCpuMap" /\ via = "inherent"
    THEN lookup_batch_impl(w, h, batch_size, next_key, FALSE)
    ELSE With(is_batching_supported(w), LAMBDA b :
            IF ~b.supported
            THEN NotSupported(b.w)
            ELSE lookup_batch_impl(b.w, h, batch_size, next_key, FALSE))

\* lookup_and_delete_batch without the early return for array-like kinds
lookup_and_delete_batch_no_array_check(w, h, batch_size, next_key, via) ==
    With(is_batching_supported(w), LAMBDA b :
        IF ~b.supported THEN NotSupported(b.w)
        ELSE lookup_batch_call(b.w, h, batch_size, next_key, TRUE))

\* Map::lookup_and_delete_batch / PerCpuMap::lookup_and_delete_batch
\* (via = "inherent") and MapLike::lookup_and_delete_batch (via = "trait")
lookup_and_delete_batch(w, h, batch_size, next_key, via) ==
    IF via = "trait"
    THEN With(is_batching_supported(w), LAMBDA b :
            IF ~b.supported THEN NotSupported(b.w)
            ELSE IF is_array(h.map_type) THEN DeleteNotSupported(b.w)
            ELSE lookup_batch_impl(b.w, h, batch_size, next_key, TRUE))
    ELSE IF h.cls = "PerCpuMap"
    THEN lookup_batch_impl(w, h, batch_size, next_key, TRUE)
    ELSE IF is_array(h.map_type)
         THEN DeleteNotSupported(w)
         ELSE With(is_batching_supported(w), LAMBDA b :
                 IF ~b.supported THEN NotSupported(b.w)
                 ELSE lookup_batch_impl(b.w, h, batch_size, next_key, TRUE))

(***************************************************************************)
(* items(): the linear walk and the bulk walk.                             *)
(***************************************************************************)
\* the world between the get_next_key that returned `key` and the lookup of
\* it: another handle has deleted the key when w.fault.racer names it
Raced(w, key) ==
    IF w.fault.racer = key
    THEN [w EXCEPT !.m = K_delete(w.m, key, w.errno).m]
    ELSE w

\* a round that leaves with the error of a failed lookup on every kind
items_round_abort(h, st) ==
    With(lookup(Raced(st.w, st.key), h, st.key), LAMBDA l :
        IF ~l.res.ok
        THEN [st EXCEPT !.w = l.w, !.more = FALSE, !.err = l.res]
        ELSE With(get_next_key(l.w, h, st.key, st.key), LAMBDA g :
                [w |-> g.w, key |-> g.key, more |-> g.res.ok, err |-> st.err,
                 result |-> Append(st.result, KeyValue(st.key, l.res.val))]))

\* one round of the `while more` loop of Map::_items / PerCpuMap::_items.
\* st holds the locals key, more and result, the world, and in err the
\* error with which `?` left the function (more is then FALSE)
\* a round that leaves with the error of a get_next_key that failed for any
\* reason other than the end of the keys
items_round_surface_next_key(h, st) ==
    With(lookup(Raced(st.w, st.key), h, st.key), LAMBDA l :
        IF ~l.res.ok /\ ~(h.cls = "Map" /\ h.map_type = "DevMap")
        THEN [st EXCEPT !.w = l.w, !.more = FALSE, !.err = l.res]
        ELSE With(get_next_key(l.w, h, st.key, st.key), LAMBDA g :
                [w |-> g.w, key |-> g.key, more |-> g.res.ok,
                 err |-> IF g.res.ok \/ g.res.code = ENOENT THEN st.err ELSE g.res,
                 result |-> IF l.res.ok THEN Append(st.result, KeyValue(st.key, l.res.val)) ELSE st.result]))

\* a round that skips a key whose lookup failed, on every kind of map
items_round_skip(h, st) ==
    With(lookup(Raced(st.w, st.key), h, st.key), LAMBDA l :
        With(get_next_key(l.w, h, st.key, st.key), LAMBDA g :
            [w |-> g.w, key |-> g.key, more |-> g.res.ok, err |-> st.err,
             result |-> IF l.res.ok THEN Append(st.result, KeyValue(st.key, l.res.val)) ELSE st.result]))

items_round(h, st) ==
    With(lookup(Raced(st.w, st.key), h, st.key), LAMBDA l :
        IF ~l.res.ok /\ ~(h.cls = "Map" /\ h.map_type = "DevMap")
        THEN [st EXCEPT !.w = l.w, !.more = FALSE, !.err = l.res]
        ELSE With(get_next_key(l.w, h, st.key, st.key), LAMBDA g :
                [w |-> g.w, key |-> g.key, more |-> g.res.ok, err |-> st.err,
                 result |-> IF l.res.ok
                            THEN Append(st.result, KeyValue(st.key, l.res.val))
                            ELSE st.result]))

\* the `while more` loop, at most n rounds of it.  A round moves to a key
\* not yet visited, so a map of n keys ends the loop within n rounds.  The
\* rounds are run as two halves, the second on the outcome of the first.
RECURSIVE items_loop(_, _, _)
items_loop(h, st, n) ==
    IF ~st.more \/ n = 0 THEN st
    ELSE IF n = 1 THEN items_round(h, st)
    ELSE With(items_loop(h, st, n \div 2), LAMBDA half :
            items_loop(h, half, n - n \div 2))

\* _items with a first get_next_key that is handed the default key, not a
\* null pointer, as its previous key
items_linear_from_default(w, h) ==
    With(get_next_key(w, h, 0, 0), LAMBDA g :
    With(items_loop(h, [w |-> g.w, key |-> g.key, more |-> g.res.ok,
                        err |-> Ok(<<>>), result |-> <<>>], w.m.max_entries),
         LAMBDA st :
        [w |-> st.w, res |-> IF st.err.ok THEN Ok(st.result) ELSE st.err]))

\* Map::_items / PerCpuMap::_items: the first key comes from a null
\* previous key
items_linear(w, h) ==
    With(get_next_key(w, h, NullKey, 0), LAMBDA g :
    With(items_loop(h, [w |-> g.w, key |-> g.key, more |-> g.res.ok,
                        err |-> Ok(<<>>), result |-> <<>>], w.m.max_entries),
         LAMBDA st :
        [w |-> st.w, res |-> IF st.err.ok THEN Ok(st.result) ELSE st.err]))

\* the `loop` of items() reading with the deleting bulk call
RECURSIVE items_bulk_deleting(_, _, _, _)
items_bulk_deleting(w, h, next_key, result) ==
    LET vals0 == IF h.cls = "PerCpuMap"
                 THEN ZeroChunk(BATCH_SIZE * NumCpus * h.value_size)
                 ELSE DefaultKeys(BATCH_SIZE)
    IN  With(lookup_batch_prealloc(w, h, BATCH_SIZE, next_key,
                                   DefaultKeys(BATCH_SIZE), vals0, TRUE), LAMBDA r :
            IF ~r.res.ok
            THEN [w |-> r.w, res |-> r.res]
            ELSE With(IF h.cls = "PerCpuMap"
                      THEN populate_batch_result_percpu(
                               r.res.val.num_items, result, r.keys, r.vals,
                               h.value_size, h.V)
                      ELSE populate_batch_result(
                               r.res.val.num_items, result, r.keys, r.vals),
                      LAMBDA result1 :
                 IF r.res.val.next_key = None
                 THEN [w |-> r.w, res |-> Ok(result1)]
                 ELSE items_bulk_deleting(r.w, h, r.res.val.next_key, result1)))

\* the `loop` of Map::items / PerCpuMap::items
RECURSIVE items_bulk(_, _, _, _)
items_bulk(w, h, next_key, result) ==
    LET vals0 == IF h.cls = "PerCpuMap"
                 THEN ZeroChunk(BATCH_SIZE * NumCpus * h.value_size)
                 ELSE DefaultKeys(BATCH_SIZE)
    IN  With(lookup_batch_prealloc(w, h, BATCH_SIZE, next_key,
                                   DefaultKeys(BATCH_SIZE), vals0, FALSE), LAMBDA r :
            IF ~r.res.ok
            THEN [w |-> r.w, res |-> r.res]
            ELSE With(IF h.cls = "PerCpuMap"
                      THEN populate_batch_result_percpu(
                               r.res.val.num_items, result, r.keys, r.vals,
                               h.value_size, h.V)
                      ELSE populate_batch_result(
                               r.res.val.num_items, result, r.keys, r.vals),
                      LAMBDA result1 :
                 IF r.res.val.next_key = None
                 THEN [w |-> r.w, res |-> Ok(result1)]
                 ELSE items_bulk(r.w, h, r.res.val.next_key, result1)))

\* the strategy test without its last operand, the probe
items_uses_linear_no_probe(w, h) ==
    [w |-> w,
     linear |-> \/ (IF h.cls = "PerCpuMap" THEN is_array(h.map_type)
                    ELSE h.map_type = "DevMap")
                \/ h.max_entries < ItemsLinearBelow]

\* the strategy test at the head of items(); the probe is only asked when
\* the tests before it in the `||` chain are false
items_uses_linear(w, h) ==
    IF (IF h.cls = "PerCpuMap" THEN is_array(h.map_type) ELSE h.map_type = "DevMap")
       \/ h.max_entries < ItemsLinearBelow
    THEN [w |-> w, linear |-> TRUE]
    ELSE With(is_batching_supported(w), LAMBDA b :
            [w |-> b.w, linear |-> ~b.supported])

\* items() that always takes the linear walk
items_linear_only(w, h) == items_linear(w, h)

\* Map::items / PerCpuMap::items
items(w, h) ==
    With(items_uses_linear(w, h), LAMBDA s :
        IF s.linear THEN items_linear(s.w, h) ELSE items_bulk(s.w, h, None, <<>>))

(***************************************************************************)
(* Constructors.  def is the map definition the loaded object holds under  *)
(* the requested name: [found, type_, key_size, value_size, max_entries].  *)
(***************************************************************************)
\* validate_map: the name must resolve and size_of::<K>() must be the
\* definition's key size
validate_map(def, K, errno) ==
    IF ~def.found
    THEN XDPError_new(errno, "Unable to find map")
    ELSE IF size_of(K) # def.key_size
    THEN XDPError_new(errno, "Incorrect key size")
    ELSE Ok([vsize |-> def.value_size, mtype |-> def.type_,
             max_entries |-> def.max_entries])

\* Map::new
Map_new(w, def, K, V) ==
    LET v == validate_map(def, K, w.errno)
    IN  IF ~v.ok THEN [w |-> w, res |-> v]
        ELSE IF is_per_cpu(v.val.mtype)
        THEN [w |-> [w EXCEPT !.errno = EINVAL],
              res |-> XDPError_new(EINVAL, "Improper map type, use rxdp::PerCPUMap::new")]
        ELSE IF size_of(V) # v.val.vsize
        THEN [w |-> w, res |-> XDPError_new(w.errno, "Incorrect value size")]
        ELSE [w |-> w,
              res |-> Ok([cls |-> "Map", K |-> K, V |-> V, map_type |-> v.val.mtype,
                          max_entries |-> v.val.max_entries, value_size |-> 0])]

\* PerCpuMap::new
PerCpuMap_new(w, def, K, V) ==
    LET v == validate_map(def, K, w.errno)
    IN  IF ~v.ok THEN [w |-> w, res |-> v]
        ELSE IF ~is_per_cpu(v.val.mtype)
        THEN [w |-> [w EXCEPT !.errno = EINVAL],
              res |-> XDPError_new(EINVAL, "Improper map type, use rxdp::Map::new")]
        ELSE [w |-> w,
              res |-> Ok([cls |-> "PerCpuMap", K |-> K, V |-> V,
                          map_type |-> v.val.mtype,
                          max_entries |-> v.val.max_entries,
                          value_size |-> align(size_of(V))])]

\* Map::create -> Map::_create(.., check_batch = true)
Map_create(w, K, V, map_type, key_size, value_size, max_entries) ==
    LET hd == [cls |-> "Map", K |-> K, V |-> V, map_type |-> map_type,
               max_entries |-> max_entries, value_size |-> 0]
    IN  With(K_create(map_type, key_size, value_size, max_entries, w.errno),
             LAMBDA c :
        With(is_batching_supported(
                 [Called(w, "create_map") EXCEPT
                    !.m = IF c.rc < 0 THEN w.m ELSE c.m, !.errno = c.errno]),
             LAMBDA b :
            [w |-> b.w,
             res |-> check_rc(c.rc, hd, "Error creating new map", b.w.errno)]))

\* PerCpuMap::create
PerCpuMap_create(w, K, V, map_type, key_size, value_size, max_entries) ==
    IF ~is_per_cpu(map_type)
    THEN [w |-> [w EXCEPT !.errno = EINVAL],
          res |-> XDPError_new(EINVAL, "Improper map type, use rxdp::Map::create")]
    ELSE LET hd == [cls |-> "PerCpuMap", K |-> K, V |-> V, map_type |-> map_type,
                    max_entries |-> max_entries, value_size |-> align(value_size)]
         IN  With(K_create(map_type, key_size, value_size, max_entries, w.errno),
                  LAMBDA c :
                [w |-> [Called(w, "create_map") EXCEPT
                          !.m = IF c.rc < 0 THEN w.m ELSE c.m, !.errno = c.errno],
                 res |-> check_rc(c.rc, hd, "Error creating new map", c.errno)])

(***************************************************************************)
(* The state machine: one loaded object with at most one named map, one    *)
(* handle, one thread.  The named map of the loaded object, when there is  *)
(* one, is the kernel map kmap; Map::create and PerCpuMap::create make the *)
(* kernel map themselves.                                                  *)
(***************************************************************************)
VARIABLES
    kmap,       \* the kernel map behind the name / the handle, NoMap if none
    handle,     \* the handle the caller holds, NoHandle before construction
    errno,      \* the thread's errno
    batching,   \* BATCHING_SUPPORTED: "unset", "yes" or "no"
    env,        \* the value of the rxdp_batching_supported variable
    kbatch,     \* whether the running kernel has the batch commands
    last,       \* the last call of the caller: its inputs, result and kernel calls
    threads     \* the threads that use BATCHING_SUPPORTED, and what they got

vars == <<kmap, handle, errno, batching, env, kbatch, last, threads>>

\* the threads of the process that ask for the probe
NumThreads == 2

Threads == 1..NumThreads

\* no thread has asked yet: where each thread stands, the values the calls
\* returned, how often the initializer was started, and whether a thread
\* had to wait for it
NoThreads ==
    [pc |-> [t \in Threads |-> "idle"], seen |-> {}, runs |-> 0, woken |-> FALSE]

\* batch sizes the caller asks for are 1..MaxBatchSize
MaxBatchSize == 2

KeyTypes == {"u32", "u64"}
MapValueTypes == {"u32", "u64"}
PerCpuValueTypes == {"i32", "i8"}

\* the values the caller writes with update()
ValuesOf(V) == IF Signed(V) THEN {-1, 1} ELSE {1, 2}

\* the key vectors handed to update_batch, and the value vector of n
\* elements that goes with them: the values alternate, so that two writes
\* of one key in a batch differ
RECURSIVE SeqsUpTo(_, _)
SeqsUpTo(S, n) ==
    IF n = 0 THEN {<<>>}
    ELSE LET shorter == SeqsUpTo(S, n - 1)
         IN  shorter \cup {Append(q, x) : q \in {r \in shorter : Len(r) = n - 1}, x \in S}

BatchKeys == SeqsUpTo(Keys, MaxBatch)

BatchValues(V, n) ==
    [i \in 1..n |-> IF i % 2 = 1 THEN 1 ELSE IF Signed(V) THEN -1 ELSE 2]

\* bpf_object__find_map_by_name + bpf_map__def on the loaded object
MapDef(m) ==
    [found |-> m.kind # "none", type_ |-> m.kind, key_size |-> m.key_size,
     value_size |-> m.value_size, max_entries |-> m.max_entries]

\* the maps a loaded object may hold under the requested name
ObjMaps(sizes) ==
    {NoMap} \cup
    {K_create(kind, 4, 4, n, 0).m : kind \in KernelModelled, n \in sizes}

\* the variable and the kernel at process start: the variable is unset, or
\* "0", or was left at "1" by a probe that succeeded on this kernel
Environments ==
    {<<"unset", TRUE>>, <<"unset", FALSE>>, <<"0", TRUE>>, <<"1", TRUE>>}

World ==
    [m |-> kmap, errno |-> errno, calls |-> <<>>, batching |-> batching,
     env |-> env, kbatch |-> kbatch, fault |-> NoFault]

NoCall ==
    [op |-> "none", key |-> NullKey, value |-> 0, flags |-> 0, keys |-> <<>>,
     values |-> <<>>, batch_size |-> 0, next_key |-> None, via |-> "",
     fault |-> NoFault, res |-> Ok(<<>>), calls |-> <<>>]

\* the caller's buffers have the layout the kernel copies: a plain Map on a
\* shared kind, a PerCpuMap whose slot is the kernel's slot
CanOperate ==
    /\ handle.cls # "none"
    /\ kmap.kind \in KernelModelled
    /\ handle.cls = "Map" => ~is_per_cpu(kmap.kind)
    /\ handle.cls = "PerCpuMap" => handle.value_size = KSlot(kmap)

InitWith(sizes, envs) ==
    /\ kmap \in ObjMaps(sizes)
    /\ handle = NoHandle
    /\ errno = 0
    /\ batching = "unset"
    /\ \E e \in envs : env = e[1] /\ kbatch = e[2]
    /\ last = NoCall
    /\ threads = NoThreads

\* the small maps, in every environment
Init == InitWith({SmallEntries}, Environments)

\* the small and the big maps, when the variable is unset
InitItems ==
    InitWith({SmallEntries, BigEntries}, {e \in Environments : e[1] = "unset"})

\* the effect of a call r on the state, recorded as `call`
Effect(r, call) ==
    /\ kmap' = r.w.m
    /\ errno' = r.w.errno
    /\ batching' = r.w.batching
    /\ env' = r.w.env
    /\ last' = [call EXCEPT !.res = r.res, !.calls = r.w.calls]
    /\ UNCHANGED <<handle, kbatch, threads>>

Construct(r, op) ==
    /\ handle' = IF r.res.ok THEN r.res.val ELSE NoHandle
    /\ kmap' = r.w.m
    /\ errno' = r.w.errno
    /\ batching' = r.w.batching
    /\ env' = r.w.env
    /\ last' = [NoCall EXCEPT !.op = op, !.res = r.res, !.calls = r.w.calls]
    /\ UNCHANGED <<kbatch, threads>>

MapNew ==
    /\ handle.cls = "none"
    /\ \E K \in KeyTypes, V \in MapValueTypes :
          Construct(Map_new(World, MapDef(kmap), K, V), "Map::new")

PerCpuMapNew ==
    /\ handle.cls = "none"
    /\ \E K \in KeyTypes, V \in PerCpuValueTypes :
          Construct(PerCpuMap_new(World, MapDef(kmap), K, V), "PerCpuMap::new")

MapCreate ==
    /\ handle.cls = "none"
    /\ kmap = NoMap
    /\ \E mt \in MapType, n \in {0, SmallEntries} :
          Construct(Map_create(World, "u32", "u32", mt, 4, 4, n), "Map::create")

PerCpuMapCreate ==
    /\ handle.cls = "none"
    /\ kmap = NoMap
    /\ \E mt \in MapType, V \in PerCpuValueTypes, n \in {0, SmallEntries} :
          Construct(PerCpuMap_create(World, "u32", V, mt, 4, 4, n), "PerCpuMap::create")

Update ==
    /\ CanOperate
    /\ \E k \in Keys, v \in ValuesOf(handle.V), f \in MapFlags :
          Effect(update(World, handle, k, v, f),
                 [NoCall EXCEPT !.op = "update", !.key = k, !.value = v])

Lookup ==
    /\ CanOperate
    /\ \E k \in Keys :
          Effect(lookup(World, handle, k), [NoCall EXCEPT !.op = "lookup", !.key = k])

Delete ==
    /\ handle.cls # "none"
    /\ is_array(handle.map_type) \/ CanOperate
    /\ \E k \in Keys :
          Effect(delete(World, handle, k), [NoCall EXCEPT !.op = "delete", !.key = k])

Items ==
    /\ CanOperate
    /\ Effect(items(World, handle), [NoCall EXCEPT !.op = "items"])

\* update_batch; the flags play no part when the two lengths differ
UpdateBatch ==
    /\ CanOperate
    /\ \E keys \in BatchKeys, n \in 0..MaxBatch, f \in MapFlags :
          /\ \/ n = Len(keys)
             \/ f = BpfAny /\ n = (Len(keys) + 1) % (MaxBatch + 1)
          /\ Effect(update_batch(World, handle, keys, BatchValues(handle.V, n), f),
                    [NoCall EXCEPT !.op = "update_batch", !.keys = keys,
                                   !.values = BatchValues(handle.V, n), !.flags = f])

LookupBatch ==
    /\ CanOperate
    /\ \E bs \in 1..MaxBatchSize, nk \in {None} \cup Keys, via \in {"inherent", "trait"} :
          Effect(lookup_batch(World, handle, bs, nk, via),
                 [NoCall EXCEPT !.op = "lookup_batch", !.batch_size = bs,
                                !.next_key = nk, !.via = via])

LookupAndDeleteBatch ==
    /\ handle.cls # "none"
    /\ is_array(handle.map_type) \/ CanOperate
    /\ \E bs \in 1..MaxBatchSize, nk \in {None} \cup Keys, via \in {"inherent", "trait"} :
          Effect(lookup_and_delete_batch(World, handle, bs, nk, via),
                 [NoCall EXCEPT !.op = "lookup_and_delete_batch", !.batch_size = bs,
                                !.next_key = nk, !.via = via])

\* the keys of the items of a batch result, in order; none for an error
BatchItemKeys(res) ==
    IF res.ok THEN [i \in 1..Len(res.val.items) |-> res.val.items[i].key] ELSE <<>>

\* the caller's loop around lookup_batch, as in the documentation of
\* lookup_batch: the first call passes no cursor.  last.keys collects the
\* keys of the items handed back so far.
LookupBatchFirst ==
    /\ CanOperate
    /\ \E bs \in 1..MaxBatchSize, via \in {"inherent", "trait"} :
       \E r \in {lookup_batch(World, handle, bs, None, via)} :
          Effect(r, [NoCall EXCEPT !.op = "lookup_batch", !.batch_size = bs,
                                   !.next_key = None, !.via = via,
                                   !.keys = BatchItemKeys(r.res)])

\* the loop goes on with the cursor of the last result
LoopInProgress ==
    /\ last.op = "lookup_batch"
    /\ last.res.ok
    /\ last.res.val.next_key # None

\* the next call of the loop: `next_key = r.next_key`
LookupBatchNext ==
    /\ CanOperate
    /\ LoopInProgress
    /\ \E r \in {lookup_batch(World, handle, last.batch_size,
                               last.res.val.next_key, last.via)} :
          Effect(r, [last EXCEPT !.next_key = last.res.val.next_key,
                                 !.keys = last.keys \o BatchItemKeys(r.res)])

\* the single-element operations
Next ==
    \/ MapNew
    \/ PerCpuMapNew
    \/ MapCreate
    \/ PerCpuMapCreate
    \/ Update
    \/ Lookup
    \/ Delete

Spec == Init /\ [][Next]_vars

\* items() on maps filled by update()
NextItems ==
    \/ MapNew
    \/ PerCpuMapNew
    \/ MapCreate
    \/ PerCpuMapCreate
    \/ Update
    \/ Items

SpecItems == InitItems /\ [][NextItems]_vars

\* update_batch on the maps that update_batch itself filled
NextUpdateBatch ==
    \/ MapNew
    \/ PerCpuMapNew
    \/ MapCreate
    \/ PerCpuMapCreate
    \/ UpdateBatch

SpecUpdateBatch == Init /\ [][NextUpdateBatch]_vars

\* the batch lookups, on maps filled by update()
NextLookupBatch ==
    \/ MapNew
    \/ PerCpuMapNew
    \/ MapCreate
    \/ PerCpuMapCreate
    \/ Update
    \/ LookupBatch
    \/ LookupAndDeleteBatch

SpecLookupBatch == Init /\ [][NextLookupBatch]_vars

\* the kinds on which items() never asks the probe, whatever the size
ItemsAlwaysLinear == {"PerCPUArray", "DevMap"}

\* every batch-capable operation in the processes whose probe answers
\* "unsupported": the variable is "0", or it is unset and the kernel has no
\* batch commands.  The maps are big where items() asks the probe on a big
\* map only, and small on the other kinds.
InitUnsupported ==
    /\ InitWith({SmallEntries, BigEntries}, {<<"unset", FALSE>>, <<"0", TRUE>>})
    /\ kmap.kind # "none"
    /\ kmap.max_entries = IF kmap.kind \in ItemsAlwaysLinear
                          THEN SmallEntries ELSE BigEntries

NextBulk ==
    \/ MapNew
    \/ PerCpuMapNew
    \/ UpdateBatch
    \/ LookupBatch
    \/ LookupAndDeleteBatch
    \/ Items

SpecBulk == InitUnsupported /\ [][NextBulk]_vars

\* the batch lookups in the processes whose variable is set to "1", on a
\* kernel with or without the batch commands
InitForced == InitWith({SmallEntries}, {<<"1", TRUE>>, <<"1", FALSE>>})

SpecLookupForced == InitForced /\ [][NextLookupBatch]_vars

\* the loop around lookup_batch on maps filled by update(), on a kernel
\* with the batch commands.  Nothing is written while a loop has a cursor,
\* and a loop that has a cursor makes its next call.
NextLoop ==
    \/ MapNew
    \/ PerCpuMapNew
    \/ MapCreate
    \/ PerCpuMapCreate
    \/ ~LoopInProgress /\ Update
    \/ ~LoopInProgress /\ LookupBatchFirst
    \/ LookupBatchNext

InitBatching == InitWith({SmallEntries}, {<<"unset", TRUE>>})

\* what a call of the loop changes when it changes anything: the cursor it
\* passes, the keys collected and the cursor it gets back
LoopState ==
    <<last.op, last.next_key, last.keys,
      IF LoopInProgress THEN last.res.val.next_key ELSE None>>

SpecLoop == InitBatching /\ [][NextLoop]_vars /\ WF_LoopState(LookupBatchNext)

\* the keys the XDP program writes
ProgramKeys == {0}

\* the XDP program running on CPU c stores a value in its own slot of a
\* key of a per-CPU map
CpuWrite ==
    /\ CanOperate
    /\ handle.cls = "PerCpuMap"
    /\ \E k \in Present(kmap) \cap ProgramKeys, c \in 1..NumCpus,
          v \in ValuesOf(handle.V) :
         /\ kmap' = [kmap EXCEPT !.data[k][c] = align_value(v, handle.V)]
         /\ last' = [NoCall EXCEPT !.op = "cpu_write", !.key = k, !.value = v]
    /\ UNCHANGED <<handle, errno, batching, env, kbatch, threads>>

\* the per-CPU kind whose kernel implementation has the batch commands, on
\* a kernel that has them, of the size that items() walks in bulk
InitPerCpu ==
    /\ InitWith({BigEntries}, {<<"unset", TRUE>>})
    /\ kmap.kind = "PerCPUHash"

NextPerCpu ==
    \/ PerCpuMapNew
    \/ Update
    \/ CpuWrite
    \/ LookupBatch
    \/ LookupAndDeleteBatch
    \/ Items

SpecPerCpu == InitPerCpu /\ [][NextPerCpu]_vars

\* the reading operations on maps filled by update(), on a kernel with the
\* batch commands: every kind with 2 entries, and with 50 entries the
\* kinds that items() reads in bulk
InitReads ==
    /\ InitWith({SmallEntries, BigEntries}, {<<"unset", TRUE>>})
    /\ kmap.kind # "none"
    /\ kmap.max_entries = BigEntries => kmap.kind \notin ItemsAlwaysLinear

NextReads ==
    \/ MapNew
    \/ PerCpuMapNew
    \/ Update
    \/ Lookup
    \/ LookupBatch
    \/ Items

SpecReads == InitReads /\ [][NextReads]_vars

\* items() while bpf_map_get_next_key fails with EINVAL after the key f
\* (NullKey: at the very first call)
ItemsFailing ==
    /\ CanOperate
    /\ \E f \in {NullKey} \cup Keys :
          Effect(items([World EXCEPT !.fault.gnk = f], handle),
                 [NoCall EXCEPT !.op = "items", !.fault.gnk = f])

\* items() while another handle deletes the key k between the get_next_key
\* that returns it and the lookup of it
ItemsRaced ==
    /\ CanOperate
    /\ \E k \in Keys :
          Effect(items([World EXCEPT !.fault.racer = k], handle),
                 [NoCall EXCEPT !.op = "items", !.fault.racer = k])

\* the linear walk (maps below BATCH_SIZE / 2 entries) under failing kernel
\* calls and concurrent deletions
NextWalk ==
    \/ MapNew
    \/ PerCpuMapNew
    \/ Update
    \/ Items
    \/ ItemsFailing
    \/ ItemsRaced

SpecWalk == InitBatching /\ [][NextWalk]_vars

(***************************************************************************)
(* BATCHING_SUPPORTED among threads.  lazy_static! runs the initializer    *)
(* check_batching_supported under a Once: the first thread to dereference  *)
(* runs it, a thread that dereferences meanwhile waits, and a later one    *)
(* reads the stored value.  batching is "running" while it runs.           *)
(***************************************************************************)
\* call_once that lets a thread in while the initializer is running
call_once_no_wait(state) ==
    IF state \in {"unset", "running"} THEN "run" ELSE "read"

\* what the Once has the dereferencing thread do
call_once(state) ==
    CASE state = "unset" -> "run"
      [] state = "running" -> "wait"
      [] OTHER -> "read"

\* thread t calls is_batching_supported(), directly or at the head of a
\* batch-capable operation
ThreadCall(t) ==
    /\ threads.pc[t] = "idle"
    /\ threads' = [threads EXCEPT !.pc[t] = "deref"]
    /\ UNCHANGED <<kmap, handle, errno, batching, env, kbatch, last>>

\* *BATCHING_SUPPORTED
Deref(t) ==
    /\ threads.pc[t] = "deref"
    /\ \E todo \in {call_once(batching)} :
         \/ /\ todo = "run"
            /\ batching' = "running"
            /\ threads' = [threads EXCEPT !.pc[t] = "read_env", !.runs = @ + 1]
         \/ /\ todo = "wait"
            /\ threads' = [threads EXCEPT !.pc[t] = "waiting"]
            /\ UNCHANGED batching
         \/ /\ todo = "read"
            /\ threads' = [threads EXCEPT !.pc[t] = "idle", !.seen = @ \cup {batching}]
            /\ UNCHANGED batching
    /\ UNCHANGED <<kmap, handle, errno, env, kbatch, last>>

\* the test of the variable in which only "0" decides: every other value
\* leads to the probe
ReadEnv_only_zero_decides(t) ==
    /\ threads.pc[t] = "read_env"
    /\ threads' = [threads EXCEPT
                      !.pc[t] = IF env = "0" THEN "return_no" ELSE "probe"]
    /\ UNCHANGED <<kmap, handle, errno, batching, env, kbatch, last>>

\* check_batching_supported, the test of the variable: a set variable
\* decides, an unset one leads to the probe
ReadEnv(t) ==
    /\ threads.pc[t] = "read_env"
    /\ threads' = [threads EXCEPT
                      !.pc[t] = CASE env = "unset" -> "probe"
                                  [] env = "0" -> "return_no"
                                  [] OTHER -> "return_yes"]
    /\ UNCHANGED <<kmap, handle, errno, batching, env, kbatch, last>>

\* check_batching_supported, the probe on its own map and the set_var of
\* its outcome
Probe(t) ==
    /\ threads.pc[t] = "probe"
    /\ \E p \in {check_batching_supported([World EXCEPT !.env = "unset"])} :
         /\ env' = p.w.env
         /\ errno' = p.w.errno
         /\ threads' = [threads EXCEPT
                           !.pc[t] = IF p.supported THEN "return_yes" ELSE "return_no"]
    /\ UNCHANGED <<kmap, handle, batching, kbatch, last>>

\* the initializer returns: the Once stores the value and the thread reads it
Return(t) ==
    /\ threads.pc[t] \in {"return_yes", "return_no"}
    /\ batching' = IF threads.pc[t] = "return_yes" THEN "yes" ELSE "no"
    /\ threads' = [threads EXCEPT !.pc[t] = "idle", !.seen = @ \cup {batching'}]
    /\ UNCHANGED <<kmap, handle, errno, env, kbatch, last>>

\* a thread that waited reads the value once it is stored
Wake(t) ==
    /\ threads.pc[t] = "waiting"
    /\ batching \in {"yes", "no"}
    /\ threads' = [threads EXCEPT !.pc[t] = "idle", !.seen = @ \cup {batching},
                                  !.woken = TRUE]
    /\ UNCHANGED <<kmap, handle, errno, batching, env, kbatch, last>>

\* the process sets or removes the variable
SetVar ==
    /\ \E e \in EnvValues \ {env} : env' = e
    /\ UNCHANGED <<kmap, handle, errno, batching, kbatch, last, threads>>

InitProbe ==
    /\ InitWith({SmallEntries}, Environments)
    /\ kmap.kind = "Hash"

NextProbe ==
    \/ \E t \in Threads : ThreadCall(t)
    \/ \E t \in Threads : Deref(t)
    \/ \E t \in Threads : ReadEnv(t)
    \/ \E t \in Threads : Probe(t)
    \/ \E t \in Threads : Return(t)
    \/ \E t \in Threads : Wake(t)
    \/ SetVar

SpecProbe == InitProbe /\ [][NextProbe]_vars

(***************************************************************************)
(* The codec on its own: a value of a ByteAligned type is encoded with     *)
(* align and the bytes are decoded with from_aligned.                      *)
(***************************************************************************)
\* the largest magnitude of a value the codec is applied to
MaxMagnitude == 8388607

\* the ends of the ranges of the 1- and 2-byte types, their neighbours, and
\* the value of the crate's tests
CodecSamples ==
    {-MaxMagnitude - 1, -32769, -32768, -129, -128, -100, -1, 0, 1, 100, 127,
     128, 255, 256, 32767, 32768, 65535, 65536, MaxMagnitude}

\* v is a value of type t
InRange(t, v) ==
    IF size_of(t) >= 4 THEN Signed(t) \/ v >= 0
    ELSE IF Signed(t)
         THEN -((256 ^ size_of(t)) \div 2) <= v /\ v <= (256 ^ size_of(t)) \div 2 - 1
         ELSE 0 <= v /\ v <= 256 ^ size_of(t) - 1

InitCodec ==
    /\ kmap = NoMap
    /\ errno = 0
    /\ batching = "unset"
    /\ env = "unset"
    /\ kbatch = TRUE
    /\ threads = NoThreads
    /\ \E t \in Types, v \in CodecSamples :
         /\ InRange(t, v)
         /\ handle = [NoHandle EXCEPT !.V = t]
         /\ last = [NoCall EXCEPT !.value = v]

\* self.align()
Align ==
    /\ last.op = "none"
    /\ last' = [last EXCEPT !.op = "align",
                            !.values = align_value(last.value, handle.V)]
    /\ UNCHANGED <<kmap, handle, errno, batching, env, kbatch, threads>>

\* V::from_aligned(chunk) on the bytes align produced
FromAligned ==
    /\ last.op = "align"
    /\ last' = [last EXCEPT !.op = "from_aligned",
                            !.res = Ok(from_aligned(last.values, handle.V))]
    /\ UNCHANGED <<kmap, handle, errno, batching, env, kbatch, threads>>

NextCodec == Align \/ FromAligned

SpecCodec == InitCodec /\ [][NextCodec]_vars

(***************************************************************************)
(* Properties.                                                             *)
(***************************************************************************)
\* what lookup() hands back for a key that holds the written value v
UserValue(h, v) == IF h.cls = "PerCpuMap" THEN [c \in 1..NumCpus |-> v] ELSE v

\* C1: a successful update(k, v) immediately followed by lookup(k) on the
\* same handle returns v on a plain Map and NumCpus values, each equal to
\* v, on a PerCpuMap.
RoundTrip ==
    [][(/\ last.op = "update" /\ last.res.ok
        /\ last'.op = "lookup" /\ last'.key = last.key)
       => (/\ last'.res.ok
           /\ last'.res.val = UserValue(handle, last.value)
           /\ handle.cls = "PerCpuMap" => Len(last'.res.val) = NumCpus)]_vars

\* a lookup on a PerCpuMap of a narrow signed type has returned the
\* negative value that an update wrote, once per CPU
RoundTripWitness ==
    /\ last.op = "lookup" /\ last.res.ok
    /\ handle.cls = "PerCpuMap" /\ handle.V = "i8"
    /\ last.res.val = [c \in 1..NumCpus |-> -1]

\* C2: on a map kind that is not array-like, lookup of an absent key fails
\* (not found), delete of a present key succeeds and removes that key and
\* no other, and an absent key stays absent until an update of that key.
DeleteThenNotFound ==
    [][(handle.cls # "none" /\ ~is_array(handle.map_type))
       => (/\ (last'.op = "lookup" /\ last'.key \notin Present(kmap))
                => (~last'.res.ok /\ last'.res.code = ENOENT)
           /\ (last'.op = "delete" /\ last'.key \in Present(kmap))
                => (last'.res.ok /\ kmap'.data = Without(kmap.data, last'.key))
           /\ \A k \in Keys :
                (k \notin Present(kmap) /\ k \in Present(kmap'))
                => (last'.op = "update" /\ last'.key = k /\ last'.res.ok))]_vars

\* a delete on a Hash map succeeded and left the other key in place
DeleteThenNotFoundWitness ==
    /\ last.op = "delete" /\ last.res.ok
    /\ handle.map_type = "Hash"
    /\ Cardinality(Present(kmap)) = 1
    /\ last.key \notin Present(kmap)

\* C3: on every array-like kind delete(key) fails with the "not supported"
\* error, issues no kernel call and leaves the map as it was.
ArrayDeleteRejected ==
    [][(last'.op = "delete" /\ is_array(handle.map_type))
       => (/\ ~last'.res.ok
           /\ last'.res.msg = "Delete not supported on this map type"
           /\ last'.calls = <<>>
           /\ kmap' = kmap)]_vars

\* delete was called on a handle of kind PerfEventArray, and on key 0
ArrayDeleteRejectedWitness ==
    /\ last.op = "delete" /\ last.key = 0 /\ ~last.res.ok
    /\ handle.map_type = "PerfEventArray"

\* the keys of a result of items()
ItemKeys(result) == {result[i].key : i \in 1..Len(result)}

\* C4: on an array-like map of N entries items() returns N entries whose
\* keys are exactly 0..N-1, under the linear and under the bulk strategy.
ArrayDensity ==
    (last.op = "items" /\ is_array(handle.map_type))
    => (/\ last.res.ok
        /\ Len(last.res.val) = handle.max_entries
        /\ ItemKeys(last.res.val) = 0..(handle.max_entries - 1))

\* items() walked a big Array in bulk after one of its keys was written
ArrayDensityWitness ==
    /\ last.op = "items" /\ last.res.ok
    /\ handle.map_type = "Array" /\ handle.max_entries = BigEntries
    /\ batching = "yes"
    /\ last.calls[Len(last.calls)] = "lookup_batch"
    /\ \E i \in 1..Len(last.res.val) : last.res.val[i].value # 0

\* C5: opening a named map returns no handle when size_of(K) differs from
\* the map's key size or size_of(V) differs from the map's value size.
OpenChecksBothSizes ==
    (last.op \in {"Map::new", "PerCpuMap::new"} /\ handle.cls # "none")
    => (/\ size_of(handle.K) = kmap.key_size
        /\ size_of(handle.V) = kmap.value_size)

\* C6: every plain Map handle refers to a kind that is not per-CPU and
\* every PerCpuMap handle to a per-CPU kind; a mismatched construction is
\* an error of code 22, and PerCpuMap::create then creates no kernel map.
HandleMatchesPerCpuness ==
    /\ handle.cls = "Map" => ~is_per_cpu(handle.map_type)
    /\ handle.cls = "PerCpuMap" => is_per_cpu(handle.map_type)
    /\ (/\ last.op \in {"Map::new", "PerCpuMap::new", "Map::create", "PerCpuMap::create"}
        /\ ~last.res.ok
        /\ kmap.kind # "none"
        /\ (last.op \in {"Map::new", "Map::create"}) = is_per_cpu(kmap.kind)
        /\ last.res.msg # "Incorrect key size")
       => last.res.code = EINVAL
    /\ (last.op = "PerCpuMap::create" /\ ~last.res.ok)
       => (kmap = NoMap /\ last.res.code = EINVAL)

\* the prefix of a batch that the kernel accepts, one update after the
\* other: n is its length, m the map with those keys in place
RECURSIVE AcceptedPrefix(_, _, _, _)
AcceptedPrefix(m, keys, flags, i) ==
    IF i > Len(keys)
    THEN [n |-> Len(keys), m |-> m]
    ELSE IF K_update_err(m, keys[i], flags) # 0
    THEN [n |-> i - 1, m |-> m]
    ELSE AcceptedPrefix([m EXCEPT !.data = (keys[i] :> 0) @@ @], keys, flags, i + 1)

\* the kernel calls of the probe when it runs inside an operation
ProbeCalls ==
    IF batching = "unset" /\ batching' # "unset" /\ env = "unset"
    THEN <<"create_map", "update_elem", "lookup_batch">>
    ELSE <<>>

Max(S) == CHOOSE x \in S : \A y \in S : y <= x

\* update_batch has taken the loop over update()
TookFallback ==
    /\ last'.op = "update_batch"
    /\ Len(last'.keys) = Len(last'.values)
    /\ \/ batching' = "no"
       \/ handle.cls = "PerCpuMap" /\ is_array(handle.map_type)

\* C7: update_batch with len(keys) # len(values) fails with code 22, makes
\* no kernel call and leaves the map unchanged.
LengthMismatchRejected ==
    [][(last'.op = "update_batch" /\ Len(last'.keys) # Len(last'.values))
       => (/\ ~last'.res.ok
           /\ last'.res.code = EINVAL
           /\ last'.calls = <<>>
           /\ kmap' = kmap)]_vars

\* the lengths differed in a process whose probe had answered "supported"
LengthMismatchRejectedWitness ==
    /\ last.op = "update_batch" /\ Len(last.keys) # Len(last.values)
    /\ ~last.res.ok
    /\ batching = "yes"

\* C8: on the fallback path update_batch calls update() in index order; the
\* first failing update ends it with that error, the updates before it
\* stay applied and those after it are never attempted; without a failure
\* it returns Ok(len(keys)).
FallbackInOrder ==
    [][TookFallback
       => LET keys == last'.keys
              values == last'.values
              a == AcceptedPrefix(kmap, keys, last'.flags, 1)
              attempted == IF a.n < Len(keys) THEN a.n + 1 ELSE a.n
          IN  /\ last'.res.ok = (a.n = Len(keys))
              /\ last'.res.ok => last'.res.val = Len(keys)
              /\ ~last'.res.ok
                   => last'.res.code = K_update_err(a.m, keys[a.n + 1], last'.flags)
              /\ last'.calls = ProbeCalls \o [i \in 1..attempted |-> "update_elem"]
              /\ \A k \in Keys :
                   LET idx == {i \in 1..a.n : keys[i] = k}
                   IN  IF idx = {}
                       THEN /\ (k \in Present(kmap')) = (k \in Present(kmap))
                            /\ k \in Present(kmap) => kmap'.data[k] = kmap.data[k]
                       ELSE LET l == lookup([World EXCEPT !.m = kmap'], handle, k)
                            IN  /\ l.res.ok
                                /\ l.res.val = UserValue(handle, values[Max(idx)])]_vars

\* a fallback batch of two elements failed at its second element
FallbackInOrderWitness ==
    /\ last.op = "update_batch" /\ ~last.res.ok
    /\ batching = "no"
    /\ Len(last.keys) = 2 /\ Len(last.values) = 2
    /\ last.keys[1] # last.keys[2]
    /\ last.keys[1] \in Present(kmap)
    /\ last.calls[Len(last.calls)] = "update_elem"

\* update_batch has made the single bulk call
TookBulk ==
    /\ last'.op = "update_batch"
    /\ Len(last'.keys) = Len(last'.values)
    /\ batching' = "yes"
    /\ ~(handle.cls = "PerCpuMap" /\ is_array(handle.map_type))

\* C9: whatever input the fallback path of update_batch applies with
\* success, the bulk path applies too, with the same count and the same
\* final map.
BulkEqualsFallback ==
    [][TookBulk
       => LET f == update_loop([World EXCEPT !.batching = "no"], handle,
                               last'.keys, last'.values, last'.flags, 1)
          IN  f.res.ok => (/\ last'.res.ok
                           /\ last'.res.val = f.res.val
                           /\ kmap' = f.w.m)]_vars

\* the probe's answer in the current state
ProbeSaysUnsupported == ~is_batching_supported(World).supported

\* C10 as claimed: with the probe unsupported, lookup_batch and
\* lookup_and_delete_batch fail with code 95, return nothing and leave the
\* map unchanged.
BatchLookupUnsupported95 ==
    [][(/\ last'.op \in {"lookup_batch", "lookup_and_delete_batch"}
        /\ ProbeSaysUnsupported)
       => (/\ ~last'.res.ok
           /\ last'.res.code = ENOTSUP
           /\ kmap' = kmap)]_vars

\* the handle's own lookup_and_delete_batch tests the kind before the probe
ArrayCheckFirst ==
    /\ last'.op = "lookup_and_delete_batch"
    /\ last'.via = "inherent"
    /\ is_array(handle.map_type)

\* C10, amended: with the probe unsupported both calls fail at once, make
\* no kernel call on the map and leave it unchanged; the code is 95, but 22
\* when lookup_and_delete_batch of the handle itself meets an array-like
\* kind.
BatchLookupUnsupported ==
    [][(/\ last'.op \in {"lookup_batch", "lookup_and_delete_batch"}
        /\ ProbeSaysUnsupported)
       => (/\ ~last'.res.ok
           /\ last'.res.val = <<>>
           /\ last'.res.code = IF ArrayCheckFirst THEN EINVAL ELSE ENOTSUP
           /\ last'.res.msg = IF ArrayCheckFirst
                               THEN "Delete not supported on this map type"
                               ELSE "Batching not supported"
           /\ last'.calls = IF ArrayCheckFirst THEN <<>> ELSE ProbeCalls
           /\ kmap' = kmap)]_vars

\* lookup_batch was refused on a map that holds a key
BatchLookupUnsupportedWitness ==
    /\ last.op = "lookup_batch" /\ ~last.res.ok
    /\ last.res.code = ENOTSUP
    /\ batching = "no"
    /\ Present(kmap) # {}

\* the names in a sequence of kernel calls
CallSet(calls) == {calls[i] : i \in 1..Len(calls)}

\* C11: lookup_and_delete_batch on an array-like kind returns an error,
\* never issues the kernel's lookup-and-delete call and leaves every entry
\* of the map as it was, with batching supported or not.
ArrayBatchDeleteRejected ==
    [][(last'.op = "lookup_and_delete_batch" /\ is_array(handle.map_type))
       => (/\ ~last'.res.ok
           /\ "lookup_and_delete_batch" \notin CallSet(last'.calls)
           /\ last'.calls \in {<<>>, ProbeCalls}
           /\ kmap' = kmap)]_vars

\* the call was refused on an Array through the trait, in a process whose
\* probe had answered "supported"
ArrayBatchDeleteRejectedWitness ==
    /\ last.op = "lookup_and_delete_batch" /\ ~last.res.ok
    /\ last.via = "trait"
    /\ handle.map_type = "Array"
    /\ batching = "yes"
    /\ last.res.code = EINVAL

\* the bulk commands among a sequence of kernel calls
BulkNames == {"update_batch", "lookup_batch", "lookup_and_delete_batch"}

BulkCalls(calls) == SelectSeq(calls, LAMBDA c : c \in BulkNames)

\* C12: where the probe's answer is "unsupported", no constructor and no
\* operation issues a bulk kernel call, but for the one test lookup of the
\* probe when the probe runs inside the call.
NoBulkWhenUnsupported ==
    [][ProbeSaysUnsupported
       => BulkCalls(last'.calls) = BulkCalls(ProbeCalls)]_vars

\* items() on a big Hash map ran the probe, was told "unsupported" and
\* went on with the walk key by key
NoBulkWhenUnsupportedWitness ==
    /\ last.op = "items" /\ last.res.ok
    /\ handle.map_type = "Hash" /\ handle.max_entries = BigEntries
    /\ batching = "no"
    /\ Len(last.calls) > 3 /\ last.calls[3] = "lookup_batch"
    /\ last.calls[Len(last.calls)] = "get_next_key"
    /\ BulkCalls(last.calls) = <<"lookup_batch">>

\* lookup_batch or lookup_and_delete_batch has made its kernel call
ReachedKernel ==
    /\ last'.op \in {"lookup_batch", "lookup_and_delete_batch"}
    /\ Len(last'.calls) = Len(ProbeCalls) + 1

\* what the kernel answers to that call
KernelAnswer ==
    K_lookup_batch(kmap, IF last'.next_key = None THEN NullKey ELSE last'.next_key,
                   0, last'.batch_size, last'.op = "lookup_and_delete_batch",
                   0, kbatch)

\* C13 as claimed: a negative kernel return with "invalid argument" or "no
\* more entries" is reported as a clean end with zero items and no error,
\* a negative return with any other code as an error.
EndCodesInvalidOrNoMore ==
    [][ReachedKernel
       => (KernelAnswer.rc < 0
           => IF KernelAnswer.errno \in {EINVAL, ENOENT}
              THEN last'.res.ok /\ last'.res.val.num_items = 0
              ELSE ~last'.res.ok)]_vars

\* C13, amended: a negative kernel return with "no space left" (28) or "no
\* more entries" (2) is reported without error, with the items the kernel
\* counted (none with 28) and, with 2, an absent cursor; a negative return
\* with any other code, "invalid argument" among them, is an error of that
\* code.
EndCodesNoSpaceOrNoMore ==
    [][ReachedKernel
       => (KernelAnswer.rc < 0
           => IF KernelAnswer.errno \in {ENOSPC, ENOENT}
              THEN /\ last'.res.ok
                   /\ last'.res.val.num_items = KernelAnswer.count
                   /\ Len(last'.res.val.items) = KernelAnswer.count
                   /\ KernelAnswer.errno = ENOSPC => KernelAnswer.count = 0
                   /\ (last'.res.val.next_key = None) = (KernelAnswer.errno = ENOENT)
              ELSE /\ ~last'.res.ok
                   /\ last'.res.code = XDPError_new(KernelAnswer.errno, "").code
                   /\ last'.res.msg = "Error looking up batch of elements")]_vars

\* the kernel refused a batch lookup with "invalid argument" and the
\* caller was handed that error
EndCodesNoSpaceOrNoMoreWitness ==
    /\ last.op = "lookup_batch" /\ ~last.res.ok
    /\ last.res.code = EINVAL
    /\ last.calls = <<"lookup_batch">>
    /\ ~kbatch /\ env = "1"

\* the loop around lookup_batch has ended with an absent cursor
LoopEnded ==
    /\ last.op = "lookup_batch"
    /\ last.res.ok
    /\ last.res.val.next_key = None

\* C14: a loop of lookup_batch calls, each fed the cursor of the one
\* before, does not go on for ever, and when it ends with an absent cursor
\* the keys it has handed back are the keys of the map, each of them once.
CursorTermination ==
    /\ []<>(~LoopInProgress)
    /\ [](LoopEnded
          => (/\ CallSet(last.keys) = Present(kmap)
              /\ Len(last.keys) = Cardinality(Present(kmap))))

\* the entries of the map as single lookups return them
MapEntries ==
    {KeyValue(k, lookup(World, handle, k).res.val) : k \in Present(kmap)}

\* the (key, value) pairs of a result of items()
ItemSet(res) == IF res.ok THEN {res.val[i] : i \in 1..Len(res.val)} ELSE {}

\* a hash kind (neither array-like nor DevMap) that is not full, on a
\* kernel with the batch commands
HashNotFull ==
    /\ handle.map_type \in {"Hash", "PerCPUHash"}
    /\ Cardinality(Present(kmap)) < handle.max_entries
    /\ kbatch

DevMapSkipsFailedLookups ==
    (last.op = "items" /\ handle.cls = "Map" /\ handle.map_type = "DevMap")
    => (/\ last.res.ok
        /\ ItemSet(last.res) = MapEntries
        /\ Len(last.res.val) = Cardinality(Present(kmap))
        /\ \A i, j \in 1..Len(last.res.val) :
              i < j => last.res.val[i].key < last.res.val[j].key
        /\ Len(SelectSeq(last.calls, LAMBDA c : c = "lookup_elem"))
              = handle.max_entries)

\* items() returned slot 1 of a DevMap whose slot 0 holds nothing
DevMapSkipsFailedLookupsWitness ==
    /\ last.op = "items" /\ last.res.ok
    /\ handle.cls = "Map" /\ handle.map_type = "DevMap"
    /\ Present(kmap) = {1}
    /\ Len(last.res.val) = 1 /\ last.res.val[1].key = 1

\* the little-endian bytes of a value v of type t, size_of(t) of them
LeBytes(v, t) == [i \in 1..size_of(t) |-> ByteOf(v, i - 1)]

\* the bytes after the first size_of(t) of an encoding
Padding(bytes, t) == SubSeq(bytes, size_of(t) + 1, Len(bytes))

Encoded == last.op \in {"align", "from_aligned"}

\* C17 as claimed: align(v) is the little-endian bytes of v followed by zero
\* bytes up to round_up(size_of(V), 8) bytes, for negative values too.
AlignZeroPadded ==
    Encoded
    => (/\ Len(last.values) = align(size_of(handle.V))
        /\ Len(last.values) % 8 = 0
        /\ SubSeq(last.values, 1, size_of(handle.V)) = LeBytes(last.value, handle.V)
        /\ \A i \in 1..Len(Padding(last.values, handle.V)) :
              Padding(last.values, handle.V)[i] = 0)

\* C17, amended: align(v) is the little-endian bytes of v followed by
\* padding up to round_up(size_of(V), 8) bytes in total, a multiple of 8;
\* every padding byte is 0 when v is not negative and 255 when v is negative.
AlignSignExtended ==
    Encoded
    => (/\ Len(last.values) = align(size_of(handle.V))
        /\ Len(last.values) % 8 = 0
        /\ SubSeq(last.values, 1, size_of(handle.V)) = LeBytes(last.value, handle.V)
        /\ \A i \in 1..Len(Padding(last.values, handle.V)) :
              Padding(last.values, handle.V)[i] = IF last.value < 0 THEN 255 ELSE 0)

\* the i8 -128 was encoded as 0x80 and seven bytes 0xFF
AlignSignExtendedWitness ==
    /\ last.op = "align" /\ handle.V = "i8" /\ last.value = -128
    /\ last.values = <<128, 255, 255, 255, 255, 255, 255, 255>>

\* C18: from_aligned(align(v)) = v for every value v of every ByteAligned
\* type, and the encoding is round_up(size_of(V), 8) bytes long.
CodecRoundTrip ==
    last.op = "from_aligned"
    => (/\ last.res.ok
        /\ last.res.val = last.value
        /\ Len(last.values) = align(size_of(handle.V)))

\* the i16 -32768, the least of its type, came back from its 8 bytes
CodecRoundTripWitness ==
    /\ last.op = "from_aligned" /\ handle.V = "i16" /\ last.value = -32768
    /\ Len(last.values) = 8
    /\ last.res.val = -32768

\* the items of the result of a bulk read or of items()
ResultItems(call) ==
    IF call.op = "items" THEN call.res.val ELSE call.res.val.items

\* C19: every item that lookup_batch, lookup_and_delete_batch or items()
\* returns from a per-CPU map carries NUM_CPUS values, the value at index c
\* being the one of CPU c: the sequence lookup(key) returned for that key
\* before the call.
PerCpuOrderPreserved ==
    [][(/\ last'.op \in {"lookup_batch", "lookup_and_delete_batch", "items"}
        /\ handle.cls = "PerCpuMap"
        /\ last'.res.ok)
       => \A i \in 1..Len(ResultItems(last')) :
             /\ Len(ResultItems(last')[i].value) = NumCpus
             /\ ResultItems(last')[i].value
                  = lookup(World, handle, ResultItems(last')[i].key).res.val]_vars

\* C20: the initializer of BATCHING_SUPPORTED is started at most once, also
\* when threads dereference it at the same time, and every call returns
\* the one stored value, whatever the variable is set to afterwards.
ProbeOnce ==
    /\ threads.runs <= 1
    /\ Cardinality(threads.seen) <= 1
    /\ threads.seen # {} => threads.seen = {batching}
    /\ batching \in {"yes", "no"} => threads.runs = 1

\* a thread that had to wait for the initializer got the value "yes", the
\* same as the thread that ran it, and the variable now says "0"
ProbeOnceWitness ==
    /\ threads.woken
    /\ threads.runs = 1
    /\ threads.seen = {"yes"}
    /\ \A t \in Threads : threads.pc[t] = "idle"
    /\ env = "0"

\* thread t leaves the test of the variable in this step
TestsVariable(t) == threads.pc[t] = "read_env" /\ threads'.pc[t] # "read_env"

\* thread t leaves the live detection in this step, with the kernel's answer
\* as the outcome and the variable set to it
DetectionReported(t) ==
    (threads.pc[t] = "probe" /\ threads'.pc[t] # "probe")
    => (/\ threads'.pc[t] = IF kbatch THEN "return_yes" ELSE "return_no"
        /\ env' = IF kbatch THEN "1" ELSE "0")

\* C21 as claimed: with the variable set to "0" the probe reports
\* unsupported without touching the kernel; with any other value, or with
\* no value, it goes to the live detection and reports its outcome.
OnlyZeroSkipsDetection ==
    [][\A t \in Threads :
         /\ TestsVariable(t)
              => threads'.pc[t] = IF env = "0" THEN "return_no" ELSE "probe"
         /\ DetectionReported(t)]_vars

\* C21, amended: "0" reports unsupported and any other value reports
\* supported, both without touching the kernel; only with no value does the
\* probe go to the live detection, report its outcome and set the variable
\* to "0" or "1" accordingly.
SetVariableSkipsDetection ==
    [][\A t \in Threads :
         /\ TestsVariable(t)
              => threads'.pc[t] = CASE env = "0" -> "return_no"
                                    [] env = "unset" -> "probe"
                                    [] OTHER -> "return_yes"
         /\ DetectionReported(t)]_vars

\* the variable said "yes" and the probe is about to report supported on a
\* kernel without the batch commands, which no live detection would report
SetVariableSkipsDetectionWitness ==
    /\ env = "yes" /\ ~kbatch
    /\ \E t \in Threads : threads.pc[t] = "return_yes"
    /\ batching = "running"

\* C22: an error a call returns carries the thread's errno as of its
\* construction, which is the errno the call leaves behind, with 524
\* (ENOTSUPP) reported as 95 (ENOTSUP); no error carries 524.
ErrorCodeIsErrno ==
    ~last.res.ok
    => (/\ last.res.code = IF errno = ENOTSUPP THEN ENOTSUP ELSE errno
        /\ last.res.code # ENOTSUPP)

\* a bulk read that the kernel refused with 524 returned an error of code 95
ErrorCodeIsErrnoWitness ==
    /\ ~last.res.ok
    /\ last.op \in {"lookup_batch", "lookup_and_delete_batch"}
    /\ errno = ENOTSUPP
    /\ last.res.code = ENOTSUP

\* C23: on a per-CPU handle lookup_batch and lookup_and_delete_batch return
\* an error, and leave the map as it is, when the probe reports unsupported
\* or the map is a PerCPUArray (whose bulk read the kernel refuses).
PerCpuBatchReadRejected ==
    [][(/\ last'.op \in {"lookup_batch", "lookup_and_delete_batch"}
        /\ handle.cls = "PerCpuMap"
        /\ ProbeSaysUnsupported \/ handle.map_type = "PerCPUArray")
       => (~last'.res.ok /\ kmap' = kmap)]_vars

\* lookup_batch on a PerCPUArray went to a kernel that has the batch
\* commands and came back with the kernel's refusal
PerCpuBatchReadRejectedWitness ==
    /\ last.op = "lookup_batch" /\ ~last.res.ok
    /\ handle.cls = "PerCpuMap" /\ handle.map_type = "PerCPUArray"
    /\ batching = "yes" /\ kbatch
    /\ last.calls # <<>> /\ last.calls[Len(last.calls)] = "lookup_batch"
    /\ last.res.code = ENOTSUP

\* C24: a lookup_and_delete_batch that returns Ok on a non-array map has
\* removed exactly the entries it returned, each of which was in the map,
\* and has left every other entry with its value; when the map is empty
\* after it, items() returns an empty list.
BatchDeleteRemovesReturned ==
    [][(/\ last'.op = "lookup_and_delete_batch"
        /\ last'.res.ok
        /\ ~is_array(handle.map_type))
       => (/\ CallSet(BatchItemKeys(last'.res)) \subseteq Present(kmap)
           /\ Len(last'.res.val.items) = Cardinality(CallSet(BatchItemKeys(last'.res)))
           /\ Present(kmap') = Present(kmap) \ CallSet(BatchItemKeys(last'.res))
           /\ \A k \in Present(kmap') : kmap'.data[k] = kmap.data[k]
           /\ Present(kmap') = {}
                => items(World', handle).res = Ok(<<>>))]_vars

\* a call handed back one of the two entries of a Hash and left the other
BatchDeleteRemovesReturnedWitness ==
    /\ last.op = "lookup_and_delete_batch" /\ last.res.ok
    /\ handle.map_type = "Hash"
    /\ Len(last.res.val.items) = 1
    /\ Cardinality(Present(kmap)) = 1
    /\ last.res.val.items[1].key \notin Present(kmap)

\* the kernel calls of the walk of items(), after those of the probe
WalkCalls == SubSeq(last'.calls, Len(ProbeCalls) + 1, Len(last'.calls))

\* the kinds items() never reads in bulk: DevMap on a Map, the array-like
\* kinds on a PerCpuMap
LinearKind ==
    IF handle.cls = "PerCpuMap" THEN is_array(handle.map_type)
    ELSE handle.map_type = "DevMap"

\* C25: items() walks linearly (get-next-key and lookup, no bulk read)
\* exactly when the kind is one of the linear kinds, or max_entries < 50,
\* or the probe reports unsupported; otherwise, a map of max_entries = 50
\* included, it walks in bulk reads only, and one batch of 100 takes in the
\* whole map of 50.
ItemsStrategy ==
    [][last'.op = "items"
       => IF LinearKind \/ handle.max_entries < ItemsLinearBelow \/ ProbeSaysUnsupported
          THEN /\ WalkCalls # <<>>
               /\ WalkCalls[1] = "get_next_key"
               /\ CallSet(WalkCalls) \subseteq {"get_next_key", "lookup_elem"}
          ELSE /\ BATCH_SIZE >= handle.max_entries
               /\ WalkCalls = <<"lookup_batch">>]_vars

\* items() read a PerCPUHash of 50 entries holding two keys in one bulk read
ItemsStrategyWitness ==
    /\ last.op = "items" /\ last.res.ok
    /\ handle.cls = "PerCpuMap" /\ handle.map_type = "PerCPUHash"
    /\ handle.max_entries = ItemsLinearBelow
    /\ batching = "yes"
    /\ last.calls = <<"lookup_batch">>
    /\ Len(last.res.val) = 2

\* C26: a batch lookup that returns Ok has no cursor exactly when the kernel
\* call reported "no more entries" (errno 2); in every other successful
\* outcome, a call that delivered no item included, the cursor is the
\* continuation value the kernel wrote.
CursorAbsentIffNoMore ==
    [][(ReachedKernel /\ last'.res.ok)
       => (/\ (last'.res.val.next_key = None) <=> (KernelAnswer.errno = ENOENT)
           /\ last'.res.val.next_key # None
                => last'.res.val.next_key = KernelAnswer.nkey)]_vars

\* a call that delivered no item came back with a cursor
CursorAbsentIffNoMoreWitness ==
    /\ last.op = "lookup_batch" /\ last.res.ok
    /\ last.res.val.num_items = 0
    /\ last.res.val.next_key # None
    /\ Cardinality(Present(kmap)) = 2

\* what the caller gets for the slot the kernel copied out for a key: the
\* value itself, or one decoded value for each CPU in the order of the CPUs
Decoded(h, slot) ==
    IF h.cls = "PerCpuMap"
    THEN [c \in 1..NumCpus |->
            from_aligned(SubSeq(slot, (c - 1) * h.value_size + 1, c * h.value_size),
                         h.V)]
    ELSE slot

\* C27: a batch lookup that returns Ok after the kernel reported n items
\* returns n items, items.len() = num_items = n <= batch_size, and for each
\* i the i-th key the kernel wrote is returned with the i-th value the
\* kernel wrote; nothing else is returned.
BatchPairsKeysWithValues ==
    [][(ReachedKernel /\ last'.res.ok)
       => (/\ last'.res.val.num_items = KernelAnswer.count
           /\ Len(last'.res.val.items) = KernelAnswer.count
           /\ KernelAnswer.count <= last'.batch_size
           /\ \A j \in 1..KernelAnswer.count :
                 \E i \in 1..Len(last'.res.val.items) :
                    last'.res.val.items[i]
                      = KeyValue(KernelAnswer.keys[j],
                                 Decoded(handle, KernelAnswer.slots[j])))]_vars

\* C28: lookup, lookup_batch and items() leave the map as it is, and an
\* items() call that follows an items() call with nothing in between
\* returns the same set of entries.
ReadsLeaveMap ==
    [][(last'.op \in {"lookup", "lookup_batch", "items"}
          => kmap' = kmap)
       /\ ((last.op = "items" /\ last'.op = "items")
          => (/\ last'.res.ok = last.res.ok
              /\ ItemSet(last'.res) = ItemSet(last.res)))]_vars

\* items() read a big Hash of two entries in bulk, and the two are still
\* there
ReadsLeaveMapWitness ==
    /\ last.op = "items" /\ last.res.ok
    /\ handle.map_type = "Hash" /\ handle.max_entries = BigEntries
    /\ last.calls = <<"lookup_batch">>
    /\ Len(last.res.val) = 2
    /\ ItemKeys(last.res.val) = Present(kmap)

\* the keys the walk has looked up when get_next_key is called with f
Walked(m, f) ==
    IF f = NullKey THEN {}
    ELSE IF m.kind \in {"Hash", "PerCPUHash"}
    THEN IF f \in Present(m)
         THEN {HashOrder(m)[i] : i \in 1..IndexOf(HashOrder(m), f)}
         ELSE Present(m)
    ELSE {k \in Keys : k <= f}

\* C29: in the linear walk of items(), a get_next_key that fails for a reason
\* other than "no more keys" ends the enumeration like the end of the keys
\* does: items() returns Ok with exactly the entries of the keys looked up
\* before the failure (none if the very first call fails), and the error of
\* get_next_key does not reach the caller.
NextKeyFailureEndsWalk ==
    [][(last'.op = "items" /\ last'.fault.gnk # Never)
       => /\ last'.res.ok
          /\ last'.res.val =
                SelectSeq(items(World, handle).res.val,
                          LAMBDA e : e.key \in Walked(kmap, last'.fault.gnk))
          /\ last'.calls[Len(last'.calls)] = "get_next_key"]_vars

NextKeyFailureEndsWalkWitness ==
    /\ last.op = "items"
    /\ last.fault.gnk \in Keys
    /\ last.res.ok
    /\ Len(last.res.val) = 1
    /\ last.res.val[1].key = last.fault.gnk
    /\ kmap.kind = "Hash"
    /\ Cardinality(Present(kmap)) = 2

\* C30: in the linear walk of items() on a map kind other than DevMap, when
\* the lookup of a key that get_next_key has just returned fails because
\* another handle deleted the key in between, items() returns the error of
\* the lookup (ENOENT) and no entry; it does not return Ok with a list that
\* leaves the key out.
RacedLookupFailsItems ==
    [][(/\ last'.op = "items"
        /\ last'.fault.racer \in Present(kmap)
        /\ kmap.kind \in {"Hash", "PerCPUHash"})
       => /\ ~last'.res.ok
          /\ last'.res.code = ENOENT
          /\ last'.res.val = <<>>
          /\ last'.res.msg = "Error looking up elem"
          /\ last'.calls[Len(last'.calls)] = "lookup_elem"]_vars

RacedLookupFailsItemsWitness ==
    /\ last.op = "items"
    /\ last.fault.racer \in Keys
    /\ ~last.res.ok
    /\ last.res.code = ENOENT
    /\ kmap.kind = "Hash"
    /\ Cardinality(Present(kmap)) = 1
    /\ last.fault.racer \notin Present(kmap)
    /\ last.calls[Len(last.calls) - 1] = "get_next_key"

====
